---- MODULE Spec2Model ----
(***************************************************************************)
(* quickenv: environment materialization and shim dispatch.                *)
(*                                                                         *)
(* Byte strings (OsString, Vec<u8>) are sequences of tokens.  A token is   *)
(* one of the separator bytes "=", "\n", ":" or an atomic run of bytes     *)
(* that contains none of them.                                             *)
(***************************************************************************)
EXTENDS Integers, Sequences, FiniteSets, TLC

VARIABLES
    \* ---- parse_env_diff (src/src/main.rs:165-211), one loop iteration per step
    reader,          \* the bytes of the stream that reader.split(b'\n') has not consumed
    parse_state,     \* ParseState
    old_env,         \* before snapshot being filled
    new_env,         \* after snapshot being filled
    prev_var_name,   \* Option<OsString>
    script_output,   \* raw lines handed to the pass-through callback, in order
    parse_pc,        \* "idle" | "loop" | "returned" | "panicked"
    segments,        \* how the stream under test was put together
    \* ---- the cache file of the context (home/envs/<hash>) and one save/load of it
    cache,           \* None when the file does not exist, else Some(its bytes)
    rt,              \* a mapping, what get_envvars loaded for it, and where the round trip is
    \* ---- the installation and the process of the current invocation
    shims,           \* names of the symlinks in home/bin (besides quickenv itself)
    home_canonical,  \* FALSE when quickenv_home is spelled through a symlink
    envrc,           \* the statements of the activation file in the project root
    proc,            \* the invocation that is running or has just exited
    created,         \* executables that launched programs have created in the project's bogus directory
    \* ---- one run of get_missing_shims, and one process with its child under signals
    ms,              \* the inputs of the run and the set it returned
    sig,             \* the quickenv process, its interrupt handler and its child
    \* ---- one call of resolve_envrc_context in a directory tree, one loop iteration per step
    res,             \* the tree, the working directory, the loop's root and the outcome
    \* ---- compute_envvars with its shell, one pipe transfer per step
    mat,             \* the generated script, the shell running it, the pipe and the reading parent
    \* ---- reloads and a dispatch of one context that run at the same time
    race             \* the bytes of the cache file, each writer's position and what the dispatch loaded

parse_vars == <<reader, parse_state, old_env, new_env, prev_var_name,
                script_output, parse_pc, segments>>

aux_vars == <<ms, sig, res, mat, race>>

vars == <<parse_vars, cache, rt, shims, home_canonical, envrc, proc, created, aux_vars>>

-----------------------------------------------------------------------------
(* Bounds *)

MaxLines == 3        \* free (non-frame) lines of a stream under test
MaxValLen == 2       \* bytes of a value in a mapping under test
MaxDepth == 2        \* nested shim dispatches followed before a run is taken to recurse forever

-----------------------------------------------------------------------------
(* Bytes and options *)

EQ == "="
NL == "LF"
COLON == ":"

None == <<>>
Some(x) == <<x>>
Unwrap(o) == o[1]

EmptyEnv == [k \in {} |-> <<>>]

EnvInsert(env, k, v) == [x \in (DOMAIN env) \cup {k} |-> IF x = k THEN v ELSE env[x]]

SeqsUpTo(S, n) == UNION {[1..k -> S] : k \in 0..n}

RECURSIVE Flatten(_)
Flatten(ss) == IF ss = <<>> THEN <<>> ELSE Head(ss) \o Flatten(Tail(ss))

\* BufRead::split(b'\n'): each item is the bytes up to the next delimiter, the
\* delimiter removed; at the end of the stream there is no further item, so a
\* stream that ends with the delimiter yields no final empty item.
HasNL(bytes) == \E i \in 1..Len(bytes) : bytes[i] = NL

FirstNL(bytes) == CHOOSE i \in 1..Len(bytes) : bytes[i] = NL /\ \A h \in 1..(i - 1) : bytes[h] # NL

NextLine(bytes) == IF HasNL(bytes) THEN SubSeq(bytes, 1, FirstNL(bytes) - 1) ELSE bytes

AfterLine(bytes) == IF HasNL(bytes) THEN SubSeq(bytes, FirstNL(bytes) + 1, Len(bytes)) ELSE <<>>

RECURSIVE SplitLines(_)
SplitLines(bytes) ==
    IF bytes = <<>> THEN <<>>
    ELSE <<NextLine(bytes)>> \o SplitLines(AfterLine(bytes))

-----------------------------------------------------------------------------
(* core::parse_env_line *)

HasEq(line) == \E i \in 1..Len(line) : line[i] = EQ

FirstEq(line) == CHOOSE i \in 1..Len(line) : line[i] = EQ /\ \A h \in 1..(i - 1) : line[h] # EQ

\* The result of one call: the updated env and tracker, or a panic (unwrap on None).
parse_env_line_nonewline(line, env, prev) ==
    IF HasEq(line)
    THEN LET i == FirstEq(line)
             var_name == SubSeq(line, 1, i - 1)
             value == SubSeq(line, i + 1, Len(line))
         IN  [panic |-> FALSE, env |-> EnvInsert(env, var_name, value), prev |-> Some(var_name)]
    ELSE IF prev = None \/ Unwrap(prev) \notin DOMAIN env
         THEN [panic |-> TRUE, env |-> env, prev |-> prev]
         ELSE [panic |-> FALSE,
               env |-> [env EXCEPT ![Unwrap(prev)] = @ \o line],
               prev |-> prev]

parse_env_line(line, env, prev) ==
    IF HasEq(line)
    THEN LET i == FirstEq(line)
             var_name == SubSeq(line, 1, i - 1)
             value == SubSeq(line, i + 1, Len(line))
         IN  [panic |-> FALSE, env |-> EnvInsert(env, var_name, value), prev |-> Some(var_name)]
    ELSE IF prev = None \/ Unwrap(prev) \notin DOMAIN env
         THEN [panic |-> TRUE, env |-> env, prev |-> prev]
         ELSE [panic |-> FALSE,
               env |-> [env EXCEPT ![Unwrap(prev)] = (@ \o <<NL>>) \o line],
               prev |-> prev]

-----------------------------------------------------------------------------
(* parse_env_diff *)

BEGIN_BEFORE == <<"// BEGIN QUICKENV-BEFORE">>
END_BEFORE == <<"// END QUICKENV-BEFORE">>
BEGIN_AFTER == <<"// BEGIN QUICKENV-AFTER">>
END_AFTER == <<"// END QUICKENV-AFTER">>

Sentinels == {BEGIN_BEFORE, END_BEFORE, BEGIN_AFTER, END_AFTER}

\* The parser's locals before the first line.
ParserStart ==
    [parse_state |-> "PreBefore", old_env |-> EmptyEnv, new_env |-> EmptyEnv,
     prev_var_name |-> None, output |-> <<>>, panic |-> FALSE]

\* parse_env_line(&mut old_env, &mut prev_var_name, line) and the same on new_env
IntoOld(st, r) == [st EXCEPT !.old_env = r.env, !.prev_var_name = r.prev, !.panic = r.panic]

IntoNew(st, r) == [st EXCEPT !.new_env = r.env, !.prev_var_name = r.prev, !.panic = r.panic]

\* A loop that honours the END-BEFORE sentinel in whatever state it meets it.
ParseStep_any_state(st, line) ==
    IF st.parse_state = "PreBefore" /\ line = BEGIN_BEFORE
    THEN [st EXCEPT !.prev_var_name = None, !.parse_state = "InBefore"]
    ELSE IF line = END_BEFORE
    THEN [st EXCEPT !.prev_var_name = None, !.parse_state = "PreAfter"]
    ELSE IF st.parse_state = "PreAfter" /\ line = BEGIN_AFTER
    THEN [st EXCEPT !.prev_var_name = None, !.parse_state = "InAfter"]
    ELSE IF st.parse_state = "InAfter" /\ line = END_AFTER
    THEN [st EXCEPT !.prev_var_name = None, !.parse_state = "End"]
    ELSE IF st.parse_state = "InBefore"
    THEN IntoOld(st, parse_env_line(line, st.old_env, st.prev_var_name))
    ELSE IF st.parse_state = "InAfter"
    THEN IntoNew(st, parse_env_line(line, st.new_env, st.prev_var_name))
    ELSE [st EXCEPT !.output = Append(@, line)]

\* A loop that keeps the tracker across the sentinels.
ParseStep_keeps_tracker(st, line) ==
    IF st.parse_state = "PreBefore" /\ line = BEGIN_BEFORE
    THEN [st EXCEPT !.parse_state = "InBefore"]
    ELSE IF st.parse_state = "InBefore" /\ line = END_BEFORE
    THEN [st EXCEPT !.parse_state = "PreAfter"]
    ELSE IF st.parse_state = "PreAfter" /\ line = BEGIN_AFTER
    THEN [st EXCEPT !.parse_state = "InAfter"]
    ELSE IF st.parse_state = "InAfter" /\ line = END_AFTER
    THEN [st EXCEPT !.parse_state = "End"]
    ELSE IF st.parse_state = "InBefore"
    THEN IntoOld(st, parse_env_line(line, st.old_env, st.prev_var_name))
    ELSE IF st.parse_state = "InAfter"
    THEN IntoNew(st, parse_env_line(line, st.new_env, st.prev_var_name))
    ELSE [st EXCEPT !.output = Append(@, line)]

\* One iteration of the loop: the match on (parse_state, line).
ParseStep(st, line) ==
    IF st.parse_state = "PreBefore" /\ line = BEGIN_BEFORE
    THEN [st EXCEPT !.prev_var_name = None, !.parse_state = "InBefore"]
    ELSE IF st.parse_state = "InBefore" /\ line = END_BEFORE
    THEN [st EXCEPT !.prev_var_name = None, !.parse_state = "PreAfter"]
    ELSE IF st.parse_state = "PreAfter" /\ line = BEGIN_AFTER
    THEN [st EXCEPT !.prev_var_name = None, !.parse_state = "InAfter"]
    ELSE IF st.parse_state = "InAfter" /\ line = END_AFTER
    THEN [st EXCEPT !.prev_var_name = None, !.parse_state = "End"]
    ELSE IF st.parse_state = "InBefore"
    THEN IntoOld(st, parse_env_line(line, st.old_env, st.prev_var_name))
    ELSE IF st.parse_state = "InAfter"
    THEN IntoNew(st, parse_env_line(line, st.new_env, st.prev_var_name))
    ELSE [st EXCEPT !.output = Append(@, line)]

\* The whole function on a list of lines; a panic stops the loop.
RECURSIVE ParseLines(_, _)
ParseLines(st, bytes) ==
    IF bytes = <<>> \/ st.panic THEN st
    ELSE ParseLines(ParseStep(st, NextLine(bytes)), AfterLine(bytes))

parse_env_diff(bytes) == ParseLines(ParserStart, bytes)

-----------------------------------------------------------------------------
(* The cache format: compute_envvars writes it, get_envvars reads it *)

\* BTreeMap<OsString, OsString> iterates in the byte order of its keys.
ByteOrder ==
    <<"NUL", NL, "// BEGIN QUICKENV-AFTER", "// BEGIN QUICKENV-BEFORE", "// END QUICKENV-AFTER",
      "// END QUICKENV-BEFORE", "1", COLON, EQ, "MYVALUE", "PATH", "QUICKENV_NO_SHIM",
      "QUICKENV_NO_SHIM_WARNINGS", "QUICKENV_PRELUDE", "QUICKENV_SHIM_EXEC", "a", "b", "bogus",
      "canary", "export ", "home/bin", "link", "old", "real/bin", "the value is",
      "usr", "x", "y">>

ByteRank(t) == CHOOSE i \in 1..Len(ByteOrder) : ByteOrder[i] = t

RECURSIVE BytesLess(_, _)
BytesLess(x, y) ==
    IF y = <<>> THEN FALSE
    ELSE IF x = <<>> THEN TRUE
    ELSE IF Head(x) # Head(y) THEN ByteRank(Head(x)) < ByteRank(Head(y))
    ELSE BytesLess(Tail(x), Tail(y))

RECURSIVE KeysInOrder(_)
KeysInOrder(keys) ==
    IF keys = {} THEN <<>>
    ELSE LET k == CHOOSE x \in keys : \A y \in keys \ {x} : BytesLess(x, y)
         IN  <<k>> \o KeysInOrder(keys \ {k})

\* for (key, value) in new_env { if old_env.get(&key) != Some(&value) { write key=value\n } }
Changed(old, new, k) == k \notin DOMAIN old \/ old[k] # new[k]

\* One name=value line per variable, in the order ks.
Records(ks, env) ==
    Flatten([i \in 1..Len(ks) |-> ((ks[i] \o <<EQ>>) \o env[ks[i]]) \o <<NL>>])

CacheBytes(old, new) == Records(KeysInOrder({k \in DOMAIN new : Changed(old, new, k)}), new)

\* get_envvars: Ok(None) without a cache file, else every line through parse_env_line
RECURSIVE LoadLines(_, _)
LoadLines(st, bytes) ==
    IF bytes = <<>> \/ st.panic THEN st
    ELSE LoadLines(parse_env_line(NextLine(bytes), st.env, st.prev), AfterLine(bytes))

Loaded(st) == [panic |-> st.panic, envvars |-> IF st.panic THEN None ELSE Some(st.env)]

get_envvars(file) ==
    IF file = None THEN [panic |-> FALSE, envvars |-> None]
    ELSE Loaded(LoadLines([panic |-> FALSE, env |-> EmptyEnv, prev |-> None], Unwrap(file)))

-----------------------------------------------------------------------------
(* Streams under test: the shape of the unit test test_parse_env_diff *)

RecAB == <<"a", EQ, "b">>
RecBEq == <<"b", EQ, EQ>>
ContB == <<"b">>
EmptyLine == <<>>

LineAlphabet == {RecAB, RecBEq, ContB, EmptyLine, END_BEFORE, BEGIN_AFTER}

\* Each line followed by the record separator; the last separator may be missing
\* when the last line is not empty.
StreamOf(lines, trailing) ==
    LET terminated == Flatten([i \in 1..Len(lines) |-> lines[i] \o <<NL>>])
    IN  IF trailing \/ lines = <<>> THEN terminated
        ELSE SubSeq(terminated, 1, Len(terminated) - 1)

FramedLines(s) ==
    s.pre \o <<BEGIN_BEFORE>> \o s.before \o <<END_BEFORE>> \o s.mid
          \o <<BEGIN_AFTER>> \o s.after \o <<END_AFTER>> \o s.post

NoSegments == [pre |-> <<>>, before |-> <<>>, mid |-> <<>>, after |-> <<>>, post |-> <<>>]

ParseIdle ==
    /\ reader = <<>>
    /\ parse_state = "PreBefore"
    /\ old_env = EmptyEnv
    /\ new_env = EmptyEnv
    /\ prev_var_name = None
    /\ script_output = <<>>
    /\ parse_pc = "idle"
    /\ segments = NoSegments

ParseInit ==
    \E free \in SeqsUpTo(LineAlphabet, MaxLines) :
      \E c1 \in 0..Len(free) : \E c2 \in c1..Len(free) :
        \E c3 \in c2..Len(free) : \E c4 \in c3..Len(free) :
          \E trailing \in BOOLEAN :
            LET s == [pre |-> SubSeq(free, 1, c1),
                      before |-> SubSeq(free, c1 + 1, c2),
                      mid |-> SubSeq(free, c2 + 1, c3),
                      after |-> SubSeq(free, c3 + 1, c4),
                      post |-> SubSeq(free, c4 + 1, Len(free))]
            IN  /\ IF trailing \/ s.post = <<>> THEN TRUE
                   ELSE s.post[Len(s.post)] # EmptyLine
                /\ segments = s
                /\ reader = StreamOf(FramedLines(s), trailing)
                /\ parse_state = ParserStart.parse_state
                /\ old_env = ParserStart.old_env
                /\ new_env = ParserStart.new_env
                /\ prev_var_name = ParserStart.prev_var_name
                /\ script_output = ParserStart.output
                /\ parse_pc = "loop"

ParserLocals ==
    [parse_state |-> parse_state, old_env |-> old_env, new_env |-> new_env,
     prev_var_name |-> prev_var_name, output |-> script_output, panic |-> FALSE]

\* for line in reader.split(b'\n') { match ... }
ParseLine ==
    /\ parse_pc = "loop"
    /\ reader # <<>>
    /\ LET st == ParseStep(ParserLocals, NextLine(reader))
       IN  /\ parse_state' = st.parse_state
           /\ old_env' = st.old_env
           /\ new_env' = st.new_env
           /\ prev_var_name' = st.prev_var_name
           /\ script_output' = st.output
           /\ parse_pc' = IF st.panic THEN "panicked" ELSE "loop"
    /\ reader' = AfterLine(reader)
    /\ UNCHANGED <<segments, cache, rt, shims, created, aux_vars, home_canonical, envrc, proc>>

\* Ok((old_env, new_env)) once the stream has ended
ParseReturn ==
    /\ parse_pc = "loop"
    /\ reader = <<>>
    /\ parse_pc' = "returned"
    /\ UNCHANGED <<reader, parse_state, old_env, new_env, prev_var_name,
                   script_output, segments, cache, rt, shims, created, aux_vars, home_canonical, envrc, proc>>

-----------------------------------------------------------------------------
(* One save and load of a mapping *)

RtIdle == [pc |-> "idle", env |-> EmptyEnv, loaded |-> None, panic |-> FALSE]

ValueBytes == {"b", EQ, NL}

KeyA == <<"a">>
KeyB == <<"b">>

MappingsUnderTest ==
    LET vals == SeqsUpTo(ValueBytes, MaxValLen)
    IN  UNION {[ks -> vals] : ks \in SUBSET {KeyA, KeyB}}

RtInit ==
    /\ ParseIdle
    /\ cache = None
    /\ \E m \in MappingsUnderTest : rt = [RtIdle EXCEPT !.pc = "start", !.env = m]

\* File::create and the write loop of compute_envvars on a whole mapping
RtSave ==
    /\ rt.pc = "start"
    /\ cache' = Some(CacheBytes(EmptyEnv, rt.env))
    /\ rt' = [rt EXCEPT !.pc = "saved"]
    /\ UNCHANGED <<parse_vars, shims, created, aux_vars, home_canonical, envrc, proc>>

RtLoad ==
    /\ rt.pc = "saved"
    /\ LET r == get_envvars(cache)
       IN  rt' = [rt EXCEPT !.pc = "loaded", !.loaded = r.envvars, !.panic = r.panic]
    /\ UNCHANGED <<parse_vars, cache, shims, created, aux_vars, home_canonical, envrc, proc>>

-----------------------------------------------------------------------------
(* Environment variables, directories and files *)

PATH == <<"PATH">>
MYVALUE == <<"MYVALUE">>
QUICKENV_NO_SHIM == <<"QUICKENV_NO_SHIM">>
QUICKENV_NO_SHIM_WARNINGS == <<"QUICKENV_NO_SHIM_WARNINGS">>
QUICKENV_PRELUDE == <<"QUICKENV_PRELUDE">>
QUICKENV_SHIM_EXEC == <<"QUICKENV_SHIM_EXEC">>
One == <<"1">>

Overlay(env, over) ==
    [k \in (DOMAIN env) \cup (DOMAIN over) |-> IF k \in DOMAIN over THEN over[k] ELSE env[k]]

EnvRemove(env, k) == [x \in (DOMAIN env) \ {k} |-> env[x]]

\* std::env::var(name).unwrap_or_default() == "1"
FlagSet(env, name) == name \in DOMAIN env /\ env[name] = One

\* PATH entries.  HomeBin is the spelling quickenv_home.join("bin").  When the
\* home directory is reached through a symlink, RealBin is the canonical spelling
\* of the same directory.  LinkBin is a symlink to the shim directory.  Bogus is
\* a relative entry that exists under the project root only.
HomeBin == <<"home/bin">>
RealBin == <<"real/bin">>
LinkBin == <<"link">>
UsrBin == <<"usr">>
Bogus == <<"bogus">>

\* Working directories, as path components below the filesystem root.
FsRoot == <<>>
ProjectRoot == <<"p">>
ProjectSub == <<"p", "s">>
Outside == <<"o">>
Cwds == {ProjectRoot, ProjectSub, Outside}

\* std::fs::canonicalize of a PATH entry: None when the entry does not exist.
Canonicalize(entry, cwd, canonical_home) ==
    IF entry = HomeBin \/ entry = LinkBin
    THEN Some(IF canonical_home THEN HomeBin ELSE RealBin)
    ELSE IF entry = RealBin THEN (IF canonical_home THEN None ELSE Some(RealBin))
    ELSE IF entry = UsrBin THEN Some(UsrBin)
    ELSE IF entry = Bogus /\ cwd = ProjectRoot THEN Some(<<"p/bogus">>)
    ELSE None

\* The entry names the directory that holds the shims.
IsShimDir(entry, cwd, canonical_home) ==
    /\ Canonicalize(entry, cwd, canonical_home) # None
    /\ Canonicalize(entry, cwd, canonical_home) = Canonicalize(HomeBin, cwd, canonical_home)

Commands == {"bash", "hello"}

\* What a lookup of dir/name finds: a shim (symlink to quickenv in home/bin),
\* quickenv itself, a real executable, or nothing.
FileKind(dir, name, cwd, w) ==
    IF IsShimDir(dir, cwd, w.home_canonical)
    THEN (IF name \in w.shims THEN "shim" ELSE IF name = "quickenv" THEN "self" ELSE "none")
    ELSE IF dir = UsrBin /\ name \in Commands THEN "real"
    ELSE IF dir = Bogus /\ cwd = ProjectRoot /\ name \in {"hello"} \cup w.created THEN "real"
    ELSE "none"

\* std::env::split_paths: the pieces between ':' bytes, empty pieces included.
RECURSIVE split_paths(_)
split_paths(bytes) ==
    IF \E i \in 1..Len(bytes) : bytes[i] = COLON
    THEN LET i == CHOOSE j \in 1..Len(bytes) :
                     bytes[j] = COLON /\ \A h \in 1..(j - 1) : bytes[h] # COLON
         IN  <<SubSeq(bytes, 1, i - 1)>> \o split_paths(SubSeq(bytes, i + 1, Len(bytes)))
    ELSE <<bytes>>

RECURSIVE JoinPaths(_)
JoinPaths(entries) ==
    IF entries = <<>> THEN <<>>
    ELSE IF Len(entries) = 1 THEN Head(entries)
    ELSE (Head(entries) \o <<COLON>>) \o JoinPaths(Tail(entries))

\* which::which_in(name, Some(path), cwd): the first PATH entry that holds an
\* executable of that name.
RECURSIVE FirstMatch(_, _, _, _)
FirstMatch(entries, name, cwd, w) ==
    IF entries = <<>> THEN None
    ELSE IF FileKind(Head(entries), name, cwd, w) # "none"
         THEN Some([dir |-> Head(entries), name |-> name])
         ELSE FirstMatch(Tail(entries), name, cwd, w)

which_in(name, path, cwd, w) == FirstMatch(split_paths(path), name, cwd, w)

\* The PATH search of process::Command::new(name) and of the shell: the child's
\* PATH, or the system default when PATH is not set.
LookPath(name, env, cwd, w) ==
    which_in(name, IF PATH \in DOMAIN env THEN env[PATH] ELSE UsrBin, cwd, w)

-----------------------------------------------------------------------------
(* core::resolve_envrc_context *)

\* The project root holds the activation file; no other directory does.
HasEnvrc(dir) == dir = ProjectRoot

RECURSIVE WalkUp(_)
WalkUp(root) ==
    IF HasEnvrc(root) THEN [err |-> "none", root |-> root, envrc_path |-> Append(root, ".envrc")]
    ELSE IF root = FsRoot THEN [err |-> "NoEnvrc", root |-> root, envrc_path |-> <<>>]
    ELSE WalkUp(SubSeq(root, 1, Len(root) - 1))

resolve_envrc_context(cwd, fault) ==
    IF fault = "cwd" THEN [err |-> "CurrentDir", root |-> cwd, envrc_path |-> <<>>]
    ELSE WalkUp(cwd)

\* core::get_envvars on the context's cache slot; reading an existing file can
\* fail with an I/O error, and a file that cannot be opened is taken for a
\* missing one (if let Ok(file) = File::open(..) { .. } Ok(None)).
CacheResult(r) == [err |-> IF r.panic THEN "panic" ELSE "none", envvars |-> r.envvars]

LoadCache(file, fault) ==
    IF file # None /\ fault = "read" THEN [err |-> "Io", envvars |-> None]
    ELSE IF fault = "open" THEN CacheResult(get_envvars(None))
    ELSE CacheResult(get_envvars(file))

Faults == {"none", "cwd", "read"}

-----------------------------------------------------------------------------
(* find_shimmed_binary *)

\* The loop over split_paths(&old_path) that builds new_path.
RECURSIVE AmendPath(_, _, _, _)
AmendPath(entries, new_path, cwd, canonical_home) ==
    IF entries = <<>> THEN new_path
    ELSE LET entry == Head(entries)
         IN  IF HomeBin = entry \/ Canonicalize(entry, cwd, canonical_home) = Some(HomeBin)
             THEN AmendPath(Tail(entries), new_path, cwd, canonical_home)
             ELSE AmendPath(Tail(entries),
                            (IF new_path # <<>> THEN new_path \o <<COLON>> ELSE new_path) \o entry,
                            cwd, canonical_home)

\* The arms of the match on resolve_envrc_context(..).and_then(get_envvars):
\* the overrides loaded, or the error that aborts.
MatchContext(ctx, got) ==
    IF ctx.err = "NoEnvrc" THEN [err |-> "none", envvars |-> EmptyEnv, ctx |-> "NoEnvrc"]
    ELSE IF ctx.err # "none" THEN [err |-> ctx.err, envvars |-> EmptyEnv, ctx |-> ctx.err]
    ELSE IF got.err # "none" THEN [err |-> got.err, envvars |-> EmptyEnv, ctx |-> "found"]
    ELSE IF got.envvars = None THEN [err |-> "none", envvars |-> EmptyEnv, ctx |-> "found"]
    ELSE [err |-> "none", envvars |-> Unwrap(got.envvars), ctx |-> "found"]

LoadFromContext(cwd, w, fault) ==
    MatchContext(resolve_envrc_context(cwd, fault), LoadCache(w.cache, fault))

Skipped == [err |-> "none", envvars |-> EmptyEnv, ctx |-> "skipped"]

LoadOverrides_ignore_flag(env, cwd, w, fault) == LoadFromContext(cwd, w, fault)

MatchContext_strict(ctx, got) ==
    IF ctx.err # "none" THEN [err |-> ctx.err, envvars |-> EmptyEnv, ctx |-> ctx.err]
    ELSE IF got.err # "none" \/ got.envvars = None
    THEN [err |-> "Io", envvars |-> EmptyEnv, ctx |-> "found"]
    ELSE [err |-> "none", envvars |-> Unwrap(got.envvars), ctx |-> "found"]

LoadOverrides_strict(env, cwd, w, fault) ==
    IF FlagSet(env, QUICKENV_NO_SHIM) THEN Skipped
    ELSE MatchContext_strict(resolve_envrc_context(cwd, fault), LoadCache(w.cache, fault))

\* if QUICKENV_NO_SHIM != "1" { match ... }
LoadOverrides(env, cwd, w, fault) ==
    IF FlagSet(env, QUICKENV_NO_SHIM) THEN Skipped
    ELSE LoadFromContext(cwd, w, fault)

NoResult == [err |-> "none", ctx |-> "skipped", loaded |-> EmptyEnv, old_path |-> None,
             envvars_override |-> EmptyEnv, path |-> None, message |-> <<>>]

\* envvars_override.get("PATH").cloned().or_else(|| std::env::var_os("PATH"))
OldPath(ov, env) ==
    IF PATH \in DOMAIN ov.envvars THEN Some(ov.envvars[PATH])
    ELSE IF PATH \in DOMAIN env THEN Some(env[PATH])
    ELSE None

\* Ok(ShimmedBinaryResult { path, envvars_override }), or the error of which_in
ShimmedBinaryResult(program_basename, ov, old_path, new_path, path, fault) ==
    [err |-> IF fault = "cwd" THEN "Cwd"
             ELSE IF path = None THEN "BinaryNotFound" ELSE "none",
     ctx |-> ov.ctx,
     loaded |-> ov.envvars,
     old_path |-> old_path,
     envvars_override |-> EnvInsert(ov.envvars, PATH, new_path),
     path |-> path,
     message |-> IF fault = "cwd" THEN <<"failed to get current working directory">>
                 ELSE IF path = None THEN <<"failed to find ", program_basename>>
                 ELSE <<>>]

\* envvars_override.insert("PATH", new_path); which::which_in(program_basename, ..)
Lookup(program_basename, ov, old_path, new_path, cwd, w, fault) ==
    ShimmedBinaryResult(program_basename, ov, old_path, new_path,
                        IF fault = "cwd" THEN None
                        ELSE which_in(program_basename, new_path, cwd, w),
                        fault)

\* .ok_or_else(|| anyhow!("failed to read PATH"))?, then the amending loop
SearchPath(program_basename, ov, old_path, cwd, w, fault) ==
    IF old_path = None
    THEN [NoResult EXCEPT !.err = "NoPath", !.ctx = ov.ctx, !.loaded = ov.envvars,
                          !.message = <<"failed to read PATH">>]
    ELSE Lookup(program_basename, ov, old_path,
                AmendPath(split_paths(Unwrap(old_path)), <<>>, cwd, w.home_canonical),
                cwd, w, fault)

\* Err(e) => return Err(e).context("failed to get environment variables from .envrc")
WithOverrides(program_basename, ov, env, cwd, w, fault) ==
    IF ov.err # "none"
    THEN [NoResult EXCEPT !.err = IF ov.err = "panic" THEN "panic" ELSE "context",
                          !.ctx = ov.ctx,
                          !.message = <<"failed to get environment variables from .envrc">>]
    ELSE SearchPath(program_basename, ov, OldPath(ov, env), cwd, w, fault)

find_shimmed_binary(program_basename, env, cwd, w, fault) ==
    WithOverrides(program_basename, LoadOverrides(env, cwd, w, fault), env, cwd, w, fault)

-----------------------------------------------------------------------------
(* The shell, the activation file and the programs a shim can launch *)

\* The activation file is opaque to quickenv; these are the statements the
\* acceptance tests use.
Echo(var) == [op |-> "echo", var |-> var, value |-> <<>>, cmd |-> "", code |-> 0]
Export(var, value) == [op |-> "export", var |-> var, value |-> value, cmd |-> "", code |-> 0]
PrependPath(dir) == [op |-> "prepend_path", var |-> PATH, value |-> dir, cmd |-> "", code |-> 0]
Unset(var) == [op |-> "unset", var |-> var, value |-> <<>>, cmd |-> "", code |-> 0]
Call(cmd, var) == [op |-> "call", var |-> var, value |-> <<>>, cmd |-> cmd, code |-> 0]
Exit(code) == [op |-> "exit", var |-> <<>>, value |-> <<>>, cmd |-> "", code |-> code]

Canary == <<"canary">>
Old == <<"old">>
TwoLines == <<"x", NL, "y">>

Envrcs ==
    { <<PrependPath(Bogus)>>,                                        \* test_basic
      <<Echo(MYVALUE), Exit(1)>>,                                     \* test_script_failure
      <<Echo(MYVALUE), Export(MYVALUE, Canary)>>,                     \* test_eating_own_tail2
      <<Call("bash", MYVALUE), Export(MYVALUE, Canary), PrependPath(Bogus)>>,  \* test_eating_own_tail
      <<Call("hello", MYVALUE), Unset(MYVALUE), PrependPath(Bogus)>>,
      <<Export(MYVALUE, TwoLines)>>,
      <<Export(MYVALUE, Canary), Exit(0)>> }

\* echo "the value is $VAR"
PrintVar(env, var) ==
    (<<"the value is">> \o (IF var \in DOMAIN env THEN env[var] ELSE <<>>)) \o <<NL>>

\* env
Dump(env) == Records(KeysInOrder(DOMAIN env), env)

Finished(code, out) == [hang |-> FALSE, code |-> code, out |-> out]
Hangs == [hang |-> TRUE, code |-> 0, out |-> <<>>]

PrintArg(var) == [kind |-> "print", var |-> var, stmts |-> <<>>]
ScriptArg(stmts) == [kind |-> "script", var |-> <<>>, stmts |-> stmts]

RECURSIVE RunProgram(_, _, _, _, _, _)

\* The shell after a command it launched has ended.
AfterCall(st, r) ==
    IF r.hang THEN [st EXCEPT !.hang = TRUE] ELSE [st EXCEPT !.out = @ \o r.out]

\* A command statement: the shell searches its PATH; a command that is not
\* found prints to standard error only.
RunCall(s, st, found, cwd, w, depth) ==
    IF found = None THEN st
    ELSE AfterCall(st, RunProgram(Unwrap(found), PrintArg(s.var), st.env, cwd, w, depth))

\* One statement from the shell state st = [env, out, hang, exited, code].
RunStatement(s, st, cwd, w, depth) ==
    IF s.op = "echo" THEN [st EXCEPT !.out = @ \o PrintVar(st.env, s.var)]
    ELSE IF s.op = "export" THEN [st EXCEPT !.env = EnvInsert(@, s.var, s.value)]
    ELSE IF s.op = "prepend_path"
    THEN [st EXCEPT !.env = EnvInsert(@, PATH,
               (s.value \o <<COLON>>) \o (IF PATH \in DOMAIN @ THEN @[PATH] ELSE <<>>))]
    ELSE IF s.op = "unset" THEN [st EXCEPT !.env = EnvRemove(@, s.var)]
    ELSE IF s.op = "exit" THEN [st EXCEPT !.exited = TRUE, !.code = s.code]
    ELSE RunCall(s, st, LookPath(s.cmd, st.env, cwd, w), cwd, w, depth)

RECURSIVE RunStatements(_, _, _, _, _)
RunStatements(stmts, st, cwd, w, depth) ==
    IF stmts = <<>> \/ st.exited \/ st.hang THEN st
    ELSE RunStatements(Tail(stmts), RunStatement(Head(stmts), st, cwd, w, depth), cwd, w, depth)

\* echo '// BEGIN QUICKENV-AFTER'; env; echo '// END QUICKENV-AFTER', unless
\* the activation file ended the shell before.
ScriptEnd(body) ==
    IF body.hang THEN Hangs
    ELSE IF body.exited THEN Finished(body.code, body.out)
    ELSE Finished(0, ((body.out \o (BEGIN_AFTER \o <<NL>>)) \o Dump(body.env))
                          \o (END_AFTER \o <<NL>>))

\* The temporary script compute_envvars writes, run by the real bash.
RunGeneratedScript(stmts, env, cwd, w, depth) ==
    ScriptEnd(RunStatements(stmts,
                            [env |-> env,
                             out |-> ((BEGIN_BEFORE \o <<NL>>) \o Dump(env)) \o (END_BEFORE \o <<NL>>),
                             hang |-> FALSE, exited |-> FALSE, code |-> 0],
                            cwd, w, depth))

\* A shim that has resolved its target: an error exits 1, else the target runs
\* with the overrides merged over the shim's environment.
Dispatch(f, arg, env, cwd, w, depth) ==
    IF f.err # "none" THEN Finished(1, <<>>)
    ELSE RunProgram(Unwrap(f.path), arg, Overlay(env, f.envvars_override), cwd, w, depth + 1)

\* A process started from the file at `path`: a real program does its work; a
\* shim is quickenv under another name, which dispatches (exec_shimmed_binary)
\* and passes on what its target does.
RunProgram(path, arg, env, cwd, w, depth) ==
    IF FileKind(path.dir, path.name, cwd, w) = "real"
    THEN (IF arg.kind = "script" /\ path.name = "bash"
          THEN RunGeneratedScript(arg.stmts, env, cwd, w, depth)
          ELSE Finished(0, PrintVar(env, arg.var)))
    ELSE IF FileKind(path.dir, path.name, cwd, w) = "shim"
    THEN (IF depth >= MaxDepth THEN Hangs
          ELSE Dispatch(find_shimmed_binary(path.name, env, cwd, w, "none"), arg, env, cwd, w, depth))
    ELSE Finished(2, <<>>)

-----------------------------------------------------------------------------
(* compute_envvars *)

NoMaterial ==
    [outcome |-> "error", stdout |-> <<>>, old_env |-> EmptyEnv, new_env |-> EmptyEnv,
     child |-> None, cache |-> None]

\* parse_env_diff(stdout_buf, ..) and cmd.wait()
Collected(parsed, code, w) ==
    [outcome |-> IF parsed.panic THEN "panic" ELSE "parsed",
     stdout |-> parsed.output,
     old_env |-> parsed.old_env,
     new_env |-> parsed.new_env,
     child |-> Some(code),
     cache |-> w.cache]

ReadChild(run, w) ==
    IF run.hang THEN [NoMaterial EXCEPT !.outcome = "hang", !.cache = w.cache]
    ELSE Collected(parse_env_diff(run.out), run.code, w)

\* The text of an export statement, as a user puts it into QUICKENV_PRELUDE.
ExportText(var, value) == ((<<"export ">> \o var) \o <<EQ>>) \o value

\* What the shell makes of the prelude text: one export statement, or nothing
\* that touches the environment.
ShellParse(text) ==
    IF Len(text) >= 3 /\ text[1] = "export " /\ text[3] = EQ
    THEN <<Export(<<text[2]>>, SubSeq(text, 4, Len(text)))>>
    ELSE <<>>

\* env::var("QUICKENV_PRELUDE").unwrap_or_else(|_| r#"eval "$(direnv stdlib)""#):
\* the default loads shell functions and exports nothing.
PreludeOf(env) ==
    IF QUICKENV_PRELUDE \in DOMAIN env THEN ShellParse(env[QUICKENV_PRELUDE]) ELSE <<>>

\* Command::new("bash").arg(script).env("QUICKENV_NO_SHIM", "1").current_dir(ctx.root).spawn()
SpawnBash(ctx, bash, env, w) ==
    IF ctx.err # "none" \/ bash = None THEN [NoMaterial EXCEPT !.cache = w.cache]
    ELSE ReadChild(RunProgram(Unwrap(bash), ScriptArg(PreludeOf(env) \o w.envrc),
                              EnvInsert(env, QUICKENV_NO_SHIM, One), ctx.root, w, 0), w)

\* The run up to cmd.wait(): context, spawn of bash in the activation root, and
\* the parse of its standard output.
RunEnvrc(cwd, env, w) ==
    SpawnBash(resolve_envrc_context(cwd, "none"), LookPath("bash", env, cwd, w), env, w)

WriteCache_first(r) ==
    IF r.outcome # "parsed" THEN r
    ELSE [r EXCEPT !.outcome = IF Unwrap(r.child) # 0 THEN "error" ELSE "ok",
                   !.cache = Some(CacheBytes(r.old_env, r.new_env))]

WriteCache_only_new(r) ==
    IF r.outcome # "parsed" THEN r
    ELSE IF Unwrap(r.child) # 0 THEN [r EXCEPT !.outcome = "error"]
    ELSE [r EXCEPT !.outcome = "ok",
                   !.cache = Some(CacheBytes(r.old_env,
                               [k \in (DOMAIN r.new_env) \ (DOMAIN r.old_env) |-> r.new_env[k]]))]

\* A writer that opens the file for appending instead of truncating it.
WriteCache_appends(r) ==
    IF r.outcome # "parsed" THEN r
    ELSE IF Unwrap(r.child) # 0 THEN [r EXCEPT !.outcome = "error"]
    ELSE [r EXCEPT !.outcome = "ok",
                   !.cache = Some((IF r.cache = None THEN <<>> ELSE Unwrap(r.cache))
                                      \o CacheBytes(r.old_env, r.new_env))]

\* if !status.success() { Err } else { File::create; write the changed pairs }
WriteCache(r) ==
    IF r.outcome # "parsed" THEN r
    ELSE IF Unwrap(r.child) # 0 THEN [r EXCEPT !.outcome = "error"]
    ELSE [r EXCEPT !.outcome = "ok", !.cache = Some(CacheBytes(r.old_env, r.new_env))]

compute_envvars(cwd, env, w) == WriteCache(RunEnvrc(cwd, env, w))

-----------------------------------------------------------------------------
(* get_missing_shims *)

\* Executables that a launched program may create in the bogus directory.
Creatable == {"hello2"}

DirEntry(name, is_dir, executable) == [name |-> name, is_dir |-> is_dir, executable |-> executable]

\* std::fs::read_dir of a directory as canonicalize spells it: None when it
\* cannot be read.  The bogus directory holds an executable, a data file and a
\* subdirectory, and what launched programs have created.
ReadDir(directory, w) ==
    IF directory = <<"p/bogus">>
    THEN Some({DirEntry("hello", FALSE, TRUE), DirEntry("notes", FALSE, FALSE),
               DirEntry("sub", TRUE, TRUE)}
              \cup {DirEntry(c, FALSE, TRUE) : c \in w.created})
    ELSE IF directory = UsrBin THEN Some({DirEntry(c, FALSE, TRUE) : c \in Commands})
    ELSE IF directory = (IF w.home_canonical THEN HomeBin ELSE RealBin)
    THEN Some({DirEntry(c, FALSE, TRUE) : c \in w.shims \cup {"quickenv"}})
    ELSE None

\* quickenv_home.join("bin").join(filename).exists()
ShimPathExists(filename, w) == filename \in w.shims \cup {"quickenv"}

\* std::fs::canonicalize(&x).unwrap_or(x)
CanonicalOrSelf(x, cwd, w) ==
    IF Canonicalize(x, cwd, w.home_canonical) # None
    THEN Unwrap(Canonicalize(x, cwd, w.home_canonical)) ELSE x

\* A scan that leaves out the test for directories.
get_missing_shims_from_dir_no_dir_test(listing, rv, w) ==
    IF listing = None THEN rv
    ELSE rv \cup {e.name : e \in {x \in Unwrap(listing) :
                                      x.executable /\ ~ShimPathExists(x.name, w)}}

\* get_missing_shims_from_dir; a directory that cannot be read leaves rv as it is.
get_missing_shims_from_dir(listing, rv, w) ==
    IF listing = None THEN rv
    ELSE rv \cup {e.name : e \in {x \in Unwrap(listing) :
                                      ~x.is_dir /\ x.executable /\ ~ShimPathExists(x.name, w)}}

\* The loop over the directories of the new PATH.
RECURSIVE ScanNewPath(_, _, _, _, _)
ScanNewPath(directories, old_paths, rv, cwd, w) ==
    IF directories = <<>> THEN rv
    ELSE IF CanonicalOrSelf(Head(directories), cwd, w) \in old_paths
    THEN ScanNewPath(Tail(directories), old_paths, rv, cwd, w)
    ELSE ScanNewPath(Tail(directories), old_paths,
                     get_missing_shims_from_dir(
                         ReadDir(CanonicalOrSelf(Head(directories), cwd, w), w), rv, w),
                     cwd, w)

OldPaths(old, cwd, w) == {CanonicalOrSelf(old[i], cwd, w) : i \in 1..Len(old)}

get_missing_shims(new_path_envvar, env, cwd, w) ==
    IF new_path_envvar = None THEN [err |-> "none", rv |-> {}]
    ELSE IF PATH \notin DOMAIN env THEN [err |-> "NoPath", rv |-> {}]
    ELSE [err |-> "none",
          rv |-> ScanNewPath(split_paths(Unwrap(new_path_envvar)),
                             OldPaths(split_paths(env[PATH]), cwd, w), {}, cwd, w)]

\* One call of get_missing_shims on its own.
NewPaths ==
    {None, Some(<<>>),
     Some(JoinPaths(<<Bogus, HomeBin, UsrBin>>)),
     Some(JoinPaths(<<Bogus, UsrBin>>)),
     Some(JoinPaths(<<LinkBin, Bogus>>)),
     Some(JoinPaths(<<UsrBin, Bogus, Bogus>>))}

OldEnvs ==
    {(PATH :> JoinPaths(<<HomeBin, UsrBin>>)),
     (PATH :> JoinPaths(<<LinkBin, UsrBin>>)),
     (PATH :> JoinPaths(<<HomeBin>>)),
     (PATH :> JoinPaths(<<Bogus, UsrBin>>)),
     EmptyEnv}

-----------------------------------------------------------------------------
(* CheckUnshimmedCommands *)

Disabled == [err |-> "none", enabled |-> FALSE]

\* CheckUnshimmedCommands::new
CheckUnshimmedCommands_new(env, cwd, fault) ==
    IF FlagSet(env, QUICKENV_NO_SHIM_WARNINGS) THEN Disabled
    ELSE [err |-> resolve_envrc_context(cwd, fault).err, enabled |-> TRUE]

\* .unwrap_or(CheckUnshimmedCommands::Disabled)
unwrap_or_Disabled(chk) == IF chk.err # "none" THEN Disabled ELSE chk

\* get_envvars(ctx)?, and get_missing_shims on the cached PATH when there is a cache.
MissingUnder(got, env, cwd, w) ==
    IF got.err # "none" THEN [err |-> got.err, rv |-> {}]
    ELSE IF got.envvars = None THEN [err |-> "none", rv |-> {}]
    ELSE get_missing_shims(IF PATH \in DOMAIN Unwrap(got.envvars)
                           THEN Some(Unwrap(got.envvars)[PATH]) ELSE None,
                           env, cwd, w)

exclude_current(chk, env, cwd, w, fault) ==
    IF ~chk.enabled THEN [err |-> "none", rv |-> {}]
    ELSE MissingUnder(LoadCache(w.cache, fault), env, cwd, w)

\* A check that warns about every missing command, new or not.
Warning_for_any(missing_shims, old_missing_shims, only_if_new) ==
    IF Cardinality(missing_shims) > 0
    THEN Some([total |-> Cardinality(missing_shims),
               new |-> Cardinality(missing_shims \ old_missing_shims)])
    ELSE None

\* The condition of the warning and the two counts it prints.
Warning(missing_shims, old_missing_shims, only_if_new) ==
    IF \/ Cardinality(missing_shims) > 0 /\ ~only_if_new
       \/ Cardinality(missing_shims \ old_missing_shims) > 0 /\ only_if_new
    THEN Some([total |-> Cardinality(missing_shims),
               new |-> Cardinality(missing_shims \ old_missing_shims)])
    ELSE None

Checked(m, old_missing_shims, only_if_new) ==
    [checked |-> TRUE, err |-> m.err, missing_shims |-> m.rv,
     warning |-> IF m.err # "none" THEN None ELSE Warning(m.rv, old_missing_shims, only_if_new)]

NotChecked == [checked |-> FALSE, err |-> "none", missing_shims |-> {}, warning |-> None]

check_unshimmed_commands(chk, old_missing_shims, only_if_new, env, cwd, w, fault) ==
    IF ~chk.enabled THEN [NotChecked EXCEPT !.checked = TRUE]
    ELSE Checked(MissingUnder(LoadCache(w.cache, fault), env, cwd, w),
                 old_missing_shims, only_if_new)

\* What the advisory did in one invocation.
Advisory(chk, before, after) ==
    [enabled |-> chk.enabled, err_before |-> before.err, old_missing_shims |-> before.rv,
     checked |-> after.checked, err_after |-> after.err, missing_shims |-> after.missing_shims,
     warning |-> after.warning]

-----------------------------------------------------------------------------
(* One invocation of the binary: main_inner *)

W == [cache |-> cache, shims |-> shims, home_canonical |-> home_canonical, envrc |-> envrc,
      created |-> created]

\* Path::new(&program_name).file_name()
file_name(program_name) == program_name[Len(program_name)]

NoProc ==
    [pc |-> "none", kind |-> "none", argv0 |-> <<>>, cwd |-> FsRoot, env |-> EmptyEnv,
     fault |-> "none", shim_entered |-> FALSE, find |-> NoResult, child |-> None,
     reload |-> NoMaterial, exit |-> None, cache_before |-> None,
     commands |-> <<>>, auto |-> FALSE, shims_before |-> {}, touched |-> {}, changes |-> 0,
     warnings |-> <<>>, error |-> <<>>, stdout |-> <<>>, pretend_shimmed |-> FALSE,
     materialized |-> FALSE, created_before |-> {},
     launch |-> None, replaced |-> FALSE, own_env |-> EmptyEnv,
     advisory |-> [enabled |-> FALSE, err_before |-> "none", old_missing_shims |-> {},
                   checked |-> FALSE, err_after |-> "none", missing_shims |-> {},
                   warning |-> None]]

\* What is started: the file, its argument vector (the path first, then the
\* arguments of the invocation) and the environment it starts with.
Target(f, env) ==
    [path |-> Unwrap(f.path), argv |-> <<Unwrap(f.path), PrintArg(MYVALUE)>>, env |-> env]

\* The target runs: std::process::exit(code) with its code in subprocess mode,
\* the target's own end in replace mode.
ChildExit(f, l, own_env, replaced, child) ==
    [find |-> f, child |-> Some(child), exit |-> IF child.hang THEN None ELSE Some(child.code),
     launch |-> Some(l), replaced |-> replaced, own_env |-> own_env]

\* .context("failed to find actual binary")?
NotLaunched(f, env, code) ==
    [find |-> f, child |-> None, exit |-> Some(code),
     launch |-> None, replaced |-> FALSE, own_env |-> env]

Started(f, l, own_env, replaced, cwd, w) ==
    ChildExit(f, l, own_env, replaced, RunProgram(l.path, l.argv[2], l.env, cwd, w, 1))

\* A launcher that ends as a shell does when a command is not found.
SpawnTarget_as_shell(f, env, cwd, w) ==
    IF f.err # "none" THEN NotLaunched(f, env, 127)
    ELSE Started(f, Target(f, Overlay(env, f.envvars_override)), env, FALSE, cwd, w)

\* process::Command::new(path).args(args).envs(envvars_override).status()
SpawnTarget(f, env, cwd, w) ==
    IF f.err # "none" THEN NotLaunched(f, env, IF f.err = "panic" THEN 101 ELSE 1)
    ELSE Started(f, Target(f, Overlay(env, f.envvars_override)), env, FALSE, cwd, w)

\* A replace mode that leaves the overrides out.
ReplaceImage_ambient(f, env, cwd, w) ==
    IF f.err # "none" THEN NotLaunched(f, env, IF f.err = "panic" THEN 101 ELSE 1)
    ELSE Started(f, Target(f, env), env, TRUE, cwd, w)

\* for (k, v) in envvars_override { set_var(k, v) }; execvp(&path, &[path] + args):
\* the image of the process is replaced, the target inherits the process's
\* environment as set_var has left it.
ReplaceImage(f, env, cwd, w) ==
    IF f.err # "none" THEN NotLaunched(f, env, IF f.err = "panic" THEN 101 ELSE 1)
    ELSE Started(f, Target(f, Overlay(env, f.envvars_override)),
                 Overlay(env, f.envvars_override), TRUE, cwd, w)

\* if env::var("QUICKENV_SHIM_EXEC").unwrap_or_default() == "1" { .. } else { .. }
Transfer(f, env, cwd, w) ==
    IF FlagSet(env, QUICKENV_SHIM_EXEC) THEN ReplaceImage(f, env, cwd, w)
    ELSE SpawnTarget(f, env, cwd, w)

\* exec_shimmed_binary: resolve, then hand over to the target, either as a
\* subprocess with the overrides merged over the ambient environment, whose
\* code becomes the exit code, or by replacing the process image.
exec_shimmed_binary(program_name, env, cwd, w, fault) ==
    Transfer(find_shimmed_binary(file_name(program_name), env, cwd, w, fault), env, cwd, w)

check_for_shim_whole_name(program_name) == program_name # <<"quickenv">>

\* check_for_shim: TRUE when the invocation is a shim invocation.
check_for_shim(program_name) == file_name(program_name) # "quickenv"

ExitOfReload(r) ==
    IF r.outcome = "ok" THEN Some(0)
    ELSE IF r.outcome = "hang" THEN None
    ELSE IF r.outcome = "panic" THEN Some(101)
    ELSE Some(1)

Argv0s == {<<"quickenv">>, HomeBin \o <<"quickenv">>} \cup {HomeBin \o <<c>> : c \in Commands}

AmbientEnvs ==
    { (PATH :> JoinPaths(<<HomeBin, UsrBin>>)),
      (PATH :> JoinPaths(<<HomeBin, HomeBin, UsrBin>>)) @@ (MYVALUE :> Old),
      (PATH :> JoinPaths(<<LinkBin, UsrBin, HomeBin>>)),
      (PATH :> JoinPaths(<<RealBin, UsrBin>>)),
      (PATH :> JoinPaths(<<HomeBin, UsrBin>>)) @@ (MYVALUE :> Old) @@ (QUICKENV_NO_SHIM :> One),
      (PATH :> JoinPaths(<<HomeBin>>)),
      (MYVALUE :> Old) }

\* check_unshimmed_commands(true) once the child has exited; the child may
\* have created executables in the meantime.
AfterChild(chk, before, r, creates, env, cwd, w, fault) ==
    Advisory(chk, before,
             IF Unwrap(r.child).hang THEN NotChecked
             ELSE check_unshimmed_commands(chk, before.rv, TRUE, env, cwd,
                                           [w EXCEPT !.created = @ \cup creates], fault))

\* The advisory around the spawn of exec_shimmed_binary; its errors are ignored.
AroundSpawn(chk, r, creates, env, cwd, w, fault) ==
    IF r.child = None \/ r.replaced THEN NoProc.advisory
    ELSE AfterChild(chk, exclude_current(chk, env, cwd, w, fault), r, creates, env, cwd, w, fault)

\* The invocation is a shim invocation: r is what exec_shimmed_binary does.
ShimInvocation(argv0, cwd, env, fault, creates, r) ==
    /\ creates # {} => (r.child # None /\ ~Unwrap(r.child).hang)
    /\ proc' = [NoProc EXCEPT !.pc = "exited", !.kind = "shim", !.argv0 = argv0,
                              !.cwd = cwd, !.env = env, !.fault = fault,
                              !.shim_entered = TRUE, !.find = r.find,
                              !.child = r.child, !.exit = r.exit,
                              !.launch = r.launch, !.replaced = r.replaced,
                              !.own_env = r.own_env,
                              !.cache_before = cache, !.created_before = created,
                              !.advisory = AroundSpawn(
                                  unwrap_or_Disabled(CheckUnshimmedCommands_new(env, cwd, fault)),
                                  r, creates, env, cwd, W, fault)]
    /\ created' = created \cup creates
    /\ UNCHANGED cache

\* check_unshimmed_commands(false)? after compute_envvars has returned Ok.
ReloadChecked(chk, before, m, after) ==
    [materialized |-> TRUE, reload |-> m, advisory |-> Advisory(chk, before, after),
     exit |-> IF after.err # "none" THEN Some(1) ELSE ExitOfReload(m)]

\* compute_envvars(..)? between the two calls of the advisory.
ReloadMaterialized(chk, before, m, env, cwd, w) ==
    IF m.outcome # "ok"
    THEN [materialized |-> TRUE, reload |-> m, advisory |-> Advisory(chk, before, NotChecked),
          exit |-> ExitOfReload(m)]
    ELSE ReloadChecked(chk, before, m,
                       check_unshimmed_commands(chk, before.rv, FALSE, env, cwd,
                                                [w EXCEPT !.cache = m.cache], "none"))

\* exclude_current()? before compute_envvars
ReloadExcluded(chk, before, env, cwd, w) ==
    IF before.err # "none"
    THEN [materialized |-> FALSE, reload |-> NoMaterial,
          advisory |-> Advisory(chk, before, NotChecked),
          exit |-> Some(IF before.err = "panic" THEN 101 ELSE 1)]
    ELSE ReloadMaterialized(chk, before, compute_envvars(cwd, env, w), env, cwd, w)

\* CheckUnshimmedCommands::new(..)?
ReloadStart(chk, env, cwd, w) ==
    IF chk.err # "none"
    THEN [materialized |-> FALSE, reload |-> NoMaterial,
          advisory |-> [NoProc.advisory EXCEPT !.err_before = chk.err], exit |-> Some(1)]
    ELSE ReloadExcluded(chk, exclude_current(chk, env, cwd, w, "none"), env, cwd, w)

\* quickenv reload: r is what the command does.
command_reload(argv0, cwd, env, r) ==
    /\ proc' = [NoProc EXCEPT !.pc = "exited", !.kind = "reload", !.argv0 = argv0,
                              !.cwd = cwd, !.env = env, !.reload = r.reload,
                              !.materialized = r.materialized, !.advisory = r.advisory,
                              !.exit = r.exit, !.cache_before = cache,
                              !.created_before = created]
    /\ cache' = IF r.materialized THEN r.reload.cache ELSE cache
    /\ UNCHANGED created

\* The binary is started as argv0 in cwd with the ambient environment env:
\* check_for_shim, and for the name quickenv the reload command.
Main(argv0, cwd, env, fault, creates) ==
    /\ proc.pc = "none"
    /\ file_name(argv0) \in shims \cup {"quickenv"}
    /\ IF check_for_shim(argv0)
       THEN ShimInvocation(argv0, cwd, env, fault, creates,
                           exec_shimmed_binary(argv0, env, cwd, W, fault))
       ELSE /\ fault = "none"
            /\ creates = {}
            /\ command_reload(argv0, cwd, env,
                              ReloadStart(CheckUnshimmedCommands_new(env, cwd, "none"),
                                          env, cwd, W))
    /\ UNCHANGED <<parse_vars, rt, shims, aux_vars, home_canonical, envrc>>

-----------------------------------------------------------------------------
(* command_shim and command_unshim *)

\* which::which(name): the search of the ambient PATH; an error without PATH.
which(name, env, cwd, w) ==
    IF PATH \in DOMAIN env THEN which_in(name, env[PATH], cwd, w) ELSE None

\* bin_dir.join(command)
ShimPath(command) == [dir |-> HomeBin, name |-> command]

\* The links in home/bin and what the loop has done to them so far.
LoopStart(w) ==
    [commands |-> <<>>, shims |-> w.shims, touched |-> {}, changes |-> 0, warnings |-> <<>>,
     error |-> <<>>, exit |-> None]

Fails(st, error) == [st EXCEPT !.exit = Some(1), !.error = error]

\* A check that takes the link away again when it is shadowed.
CheckEffective_rolls_back(command, st, effective_command_path) ==
    IF effective_command_path = None
    THEN Fails(st, <<"failed to find command after shimming", command>>)
    ELSE IF Unwrap(effective_command_path) # ShimPath(command)
    THEN Fails([st EXCEPT !.shims = @ \ {command}],
               <<"is shadowed by an executable of the same name at",
                 ShimPath(command), Unwrap(effective_command_path)>>)
    ELSE st

\* The check of the freshly made link against which::which(command).
CheckEffective(command, st, effective_command_path) ==
    IF effective_command_path = None
    THEN Fails(st, <<"failed to find command after shimming", command>>)
    ELSE IF Unwrap(effective_command_path) # ShimPath(command)
    THEN Fails(st, <<"is shadowed by an executable of the same name at",
                     ShimPath(command), Unwrap(effective_command_path)>>)
    ELSE st

\* remove_file, symlink and the count of links that were not there.
Relink(command, st) ==
    [st EXCEPT !.shims = @ \cup {command}, !.touched = @ \cup {command},
               !.changes = IF command \in st.shims THEN @ ELSE @ + 1]

\* A loop body that shims whatever name it is given.
ShimOne_any_name(command, st, env, cwd, w) ==
    CheckEffective(command, Relink(command, st),
                   which(command, env, cwd, [w EXCEPT !.shims = st.shims \cup {command}]))

\* A loop body that counts every link it makes.
ShimOne_counts_all(command, st, env, cwd, w) ==
    IF command = "quickenv" THEN [st EXCEPT !.warnings = Append(@, "not shimming own binary")]
    ELSE CheckEffective(command, [Relink(command, st) EXCEPT !.changes = st.changes + 1],
                        which(command, env, cwd, [w EXCEPT !.shims = st.shims \cup {command}]))

\* A loop body that takes any match of the name on PATH for the shim.
ShimOne_no_shadow_check(command, st, env, cwd, w) ==
    IF command = "quickenv" THEN [st EXCEPT !.warnings = Append(@, "not shimming own binary")]
    ELSE Relink(command, st)

\* The body of the loop over the commands to shim.
ShimOne(command, st, env, cwd, w) ==
    IF command = "quickenv" THEN [st EXCEPT !.warnings = Append(@, "not shimming own binary")]
    ELSE CheckEffective(command, Relink(command, st),
                        which(command, env, cwd, [w EXCEPT !.shims = st.shims \cup {command}]))

RECURSIVE ShimLoop(_, _, _, _, _)
ShimLoop(commands, st, env, cwd, w) ==
    IF commands = <<>> \/ st.exit # None THEN st
    ELSE ShimLoop(Tail(commands), ShimOne(Head(commands), st, env, cwd, w), env, cwd, w)

\* Ok(()) at the end of a command that has not exited before.
ReturnsOk(st) == IF st.exit = None THEN [st EXCEPT !.exit = Some(0)] ELSE st

\* create_dir_all, which::which("quickenv")?, the loop and the summary.
InstallShims(commands, env, cwd, w) ==
    IF which("quickenv", env, cwd, w) = None
    THEN Fails(LoopStart(w), <<"cannot find binary path">>)
    ELSE ReturnsOk(ShimLoop(commands, [LoopStart(w) EXCEPT !.commands = commands], env, cwd, w))

\* A BTreeSet<String> as the Vec that collect() makes of it.
NameOrder == <<"bash", "hello", "hello2", "notes", "quickenv", "sub">>

InSet(names) == LET Member(n) == n \in names IN SelectSeq(NameOrder, Member)

\* commands = get_missing_shims(..)?, and the question whether to continue.
AutoShims(missing, answer, env, cwd, w) ==
    IF missing.err # "none" THEN Fails(LoopStart(w), <<"failed to read PATH">>)
    ELSE IF missing.rv # {} /\ ~answer THEN Fails(LoopStart(w), <<>>)
    ELSE InstallShims(InSet(missing.rv), env, cwd, w)

\* The automatic mode up to the cached environment.
AutoContext(ctx, got, answer, env, cwd, w) ==
    IF ctx.err # "none" THEN Fails(LoopStart(w), <<ctx.err>>)
    ELSE IF got.err # "none" THEN Fails(LoopStart(w), <<got.err>>)
    ELSE IF got.envvars = None THEN Fails(LoopStart(w), <<"Run 'quickenv reload' first">>)
    ELSE AutoShims(get_missing_shims(IF PATH \in DOMAIN Unwrap(got.envvars)
                                     THEN Some(Unwrap(got.envvars)[PATH]) ELSE None,
                                     env, cwd, w),
                   answer, env, cwd, w)

command_shim(commands, answer, env, cwd, w) ==
    IF commands = <<>>
    THEN AutoContext(resolve_envrc_context(cwd, "none"), LoadCache(w.cache, "none"),
                     answer, env, cwd, w)
    ELSE InstallShims(commands, env, cwd, w)

\* A loop body that unlinks whatever name it is given.
UnshimOne_any_name(command, st) ==
    [st EXCEPT !.shims = @ \ {command}, !.touched = @ \cup {command},
               !.changes = IF command \in st.shims THEN @ + 1 ELSE @]

\* The body of the loop over the commands to unshim.
UnshimOne(command, st) ==
    IF command = "quickenv" THEN [st EXCEPT !.warnings = Append(@, "not unshimming own binary")]
    ELSE [st EXCEPT !.shims = @ \ {command}, !.touched = @ \cup {command},
                    !.changes = IF command \in st.shims THEN @ + 1 ELSE @]

RECURSIVE UnshimLoop(_, _)
UnshimLoop(commands, st) ==
    IF commands = <<>> THEN st ELSE UnshimLoop(Tail(commands), UnshimOne(Head(commands), st))

command_unshim(commands, w) ==
    ReturnsOk(UnshimLoop(commands, [LoopStart(w) EXCEPT !.commands = commands]))

\* The command lines of quickenv shim and quickenv unshim; none names the
\* automatic mode.
Requests ==
    {<<>>, <<"hello">>, <<"hello", "hello">>, <<"hello2">>, <<"quickenv">>,
     <<"quickenv", "hello">>, <<"bash", "hello">>, <<"hello", "bash">>}

\* The outcome r of a shim or unshim command becomes visible; r.commands are the
\* commands the loop was given.
ShimCommandDone(kind, commands, cwd, env, r) ==
    /\ proc' = [NoProc EXCEPT !.pc = "exited", !.kind = kind, !.argv0 = <<"quickenv">>,
                              !.cwd = cwd, !.env = env, !.cache_before = cache,
                              !.commands = r.commands, !.auto = (kind = "shim_command" /\ commands = <<>>),
                              !.shims_before = shims, !.touched = r.touched,
                              !.changes = r.changes, !.warnings = r.warnings,
                              !.error = r.error, !.exit = r.exit]
    /\ shims' = r.shims

CommandShim(commands, answer, cwd, env) ==
    /\ proc.pc = "none"
    /\ ShimCommandDone("shim_command", commands, cwd, env,
                       command_shim(commands, answer, env, cwd, W))
    /\ UNCHANGED <<parse_vars, rt, cache, created, aux_vars, home_canonical, envrc>>

CommandUnshim(commands, cwd, env) ==
    /\ proc.pc = "none"
    /\ ShimCommandDone("unshim_command", commands, cwd, env, command_unshim(commands, W))
    /\ UNCHANGED <<parse_vars, rt, cache, created, aux_vars, home_canonical, envrc>>

-----------------------------------------------------------------------------
(* command_vars, command_which and command_exec *)

\* for (k, v) in envvars { stdout: k, "=", v, "\n" }
PrintVars(envvars) == Records(KeysInOrder(DOMAIN envvars), envvars)

Reported(stdout, error, code) == [stdout |-> stdout, error |-> error, exit |-> Some(code)]

\* let ctx = resolve_envrc_context(..)?; if let Some(envvars) = get_envvars(&ctx)? { .. } else { exit(1) }
VarsOf(ctx, got) ==
    IF ctx.err # "none" THEN Reported(<<>>, <<ctx.err>>, 1)
    ELSE IF got.err # "none" THEN Reported(<<>>, <<got.err>>, IF got.err = "panic" THEN 101 ELSE 1)
    ELSE IF got.envvars = None THEN Reported(<<>>, <<"Run 'quickenv reload' first">>, 1)
    ELSE Reported(PrintVars(Unwrap(got.envvars)), <<>>, 0)

command_vars(cwd, w, fault) ==
    VarsOf(resolve_envrc_context(cwd, fault), LoadCache(w.cache, fault))

\* find_shimmed_binary(..)?; println!("{}", path.display())
PrintTarget(f) ==
    IF f.err # "none" THEN Reported(<<>>, f.message, IF f.err = "panic" THEN 101 ELSE 1)
    ELSE Reported(<<Unwrap(f.path)>>, <<>>, 0)

\* A which that never tests whether the program is shimmed.
command_which_unchecked(program_name, pretend_shimmed, env, cwd, w, fault) ==
    PrintTarget(find_shimmed_binary(file_name(program_name), env, cwd, w, fault))

\* if !pretend_shimmed && which::which(&program_name)? != quickenv_home.join("bin").join(&program_name)
command_which(program_name, pretend_shimmed, env, cwd, w, fault) ==
    IF ~pretend_shimmed /\ which(file_name(program_name), env, cwd, w) = None
    THEN Reported(<<>>, <<"cannot find binary path">>, 1)
    ELSE IF ~pretend_shimmed
            /\ Unwrap(which(file_name(program_name), env, cwd, w)) # ShimPath(file_name(program_name))
    THEN Reported(<<>>, <<file_name(program_name), " is not shimmed by quickenv">>, 1)
    ELSE PrintTarget(find_shimmed_binary(file_name(program_name), env, cwd, w, fault))

\* An exec that looks the program up without the activation environment.
command_exec_ambient(program_name, env, cwd, w, fault) ==
    SpawnTarget(find_shimmed_binary(file_name(program_name),
                                    EnvInsert(env, QUICKENV_NO_SHIM, One), cwd, w, fault),
                env, cwd, w)

\* fn command_exec(program_name, args) { exec_shimmed_binary(&program_name, args) }
command_exec(program_name, env, cwd, w, fault) ==
    exec_shimmed_binary(program_name, env, cwd, w, fault)

\* A command that prints and exits: r is what it reports.
ReportDone(kind, program_name, pretend_shimmed, cwd, env, fault, r) ==
    proc' = [NoProc EXCEPT !.pc = "exited", !.kind = kind, !.argv0 = <<"quickenv">>,
                           !.cwd = cwd, !.env = env, !.fault = fault,
                           !.commands = program_name, !.pretend_shimmed = pretend_shimmed,
                           !.stdout = r.stdout, !.error = r.error, !.exit = r.exit,
                           !.cache_before = cache, !.shims_before = shims,
                           !.created_before = created]

CommandVars(cwd, env, fault) ==
    /\ proc.pc = "none"
    /\ ReportDone("vars", <<>>, FALSE, cwd, env, fault, command_vars(cwd, W, fault))
    /\ UNCHANGED <<parse_vars, rt, cache, shims, created, aux_vars, home_canonical, envrc>>

CommandWhich(program_name, pretend_shimmed, cwd, env, fault) ==
    /\ proc.pc = "none"
    /\ ReportDone("which", program_name, pretend_shimmed, cwd, env, fault,
                  command_which(program_name, pretend_shimmed, env, cwd, W, fault))
    /\ UNCHANGED <<parse_vars, rt, cache, shims, created, aux_vars, home_canonical, envrc>>

\* quickenv exec: r is what exec_shimmed_binary does, the advisory around its
\* spawn included.
ExecInvocation(program_name, cwd, env, fault, creates, r) ==
    /\ creates # {} => (r.child # None /\ ~Unwrap(r.child).hang)
    /\ proc' = [NoProc EXCEPT !.pc = "exited", !.kind = "exec", !.argv0 = <<"quickenv">>,
                              !.commands = program_name,
                              !.cwd = cwd, !.env = env, !.fault = fault,
                              !.find = r.find, !.child = r.child, !.exit = r.exit,
                              !.launch = r.launch, !.replaced = r.replaced,
                              !.own_env = r.own_env,
                              !.cache_before = cache, !.shims_before = shims,
                              !.created_before = created,
                              !.advisory = AroundSpawn(
                                  unwrap_or_Disabled(CheckUnshimmedCommands_new(env, cwd, fault)),
                                  r, creates, env, cwd, W, fault)]
    /\ created' = created \cup creates
    /\ UNCHANGED cache

CommandExec(program_name, cwd, env, fault, creates) ==
    /\ proc.pc = "none"
    /\ ExecInvocation(program_name, cwd, env, fault, creates,
                      command_exec(program_name, env, cwd, W, fault))
    /\ UNCHANGED <<parse_vars, rt, shims, aux_vars, home_canonical, envrc>>

\* The process is gone; the next command can be started.
ProcessExit ==
    /\ proc.pc = "exited"
    /\ proc' = NoProc
    /\ UNCHANGED <<parse_vars, rt, cache, shims, created, aux_vars, home_canonical, envrc>>

\* An edit that invalidates the cache of the context.
EditEnvrc_drops_cache(script) ==
    /\ proc.pc = "none"
    /\ script # envrc
    /\ envrc' = script
    /\ cache' = None
    /\ UNCHANGED <<parse_vars, rt, shims, created, aux_vars, home_canonical, proc>>

\* The user rewrites the activation file; the cache slot is keyed by the
\* file's path, so the cache stays.
EditEnvrc(script) ==
    /\ proc.pc = "none"
    /\ script # envrc
    /\ envrc' = script
    /\ UNCHANGED <<parse_vars, rt, cache, shims, created, aux_vars, home_canonical, proc>>

-----------------------------------------------------------------------------
(* The quickenv process, its interrupt handler and the child it waits for *)

MaxInterrupts == 1

INTERRUPTED_EXIT_CODE == 130
NO_EXITCODE == 134

\* How the binary was started: through a shim, or as quickenv exec, quickenv
\* reload or quickenv shim (which asks for confirmation).
Modes == {"shim_invocation", "exec", "reload", "shim"}

ChildCodes == {0, 3}

SigIdle ==
    [pc |-> "idle", mode |-> "none", handler |-> FALSE, SHIM_HAS_CONTROL |-> FALSE,
     cursor |-> "shown", exit |-> None, signaled |-> FALSE,
     child |-> "none", traps |-> FALSE, child_code |-> None,
     out |-> <<>>, interrupts |-> 0]

\* The process is gone: what follows it on the terminal is printed.
ProcessEnds(s, code) ==
    [s EXCEPT !.pc = "exited", !.exit = code, !.out = Append(@, "new_prompt")]

\* A handler that ends the process whatever the flag says.
ctrlc_handler_ignores_flag(s) ==
    ProcessEnds([s EXCEPT !.cursor = "shown"], Some(INTERRUPTED_EXIT_CODE))

\* The closure given to ctrlc::set_handler.
ctrlc_handler(s) ==
    IF ~s.SHIM_HAS_CONTROL
    THEN ProcessEnds([s EXCEPT !.cursor = "shown"], Some(INTERRUPTED_EXIT_CODE))
    ELSE s

\* SIGINT in a process that has installed no handler ends it; it yields no exit code.
DefaultDisposition(s) == [ProcessEnds(s, None) EXCEPT !.signaled = TRUE]

\* SIGINT in the child: a child with a trap runs its cleanup, another one is ended.
InterruptChild(s) ==
    IF s.child # "running" THEN s
    ELSE IF s.traps THEN [s EXCEPT !.child = "cleanup"]
    ELSE [s EXCEPT !.child = "signaled", !.child_code = None]

\* An exit code that stands for a child without one.
ExitCodeFor_generic(child_code) == IF child_code # None THEN child_code ELSE Some(1)

\* if let Some(code) = exitcode.code() { exit(code) }; exit(134)
ExitCodeFor(child_code) == IF child_code # None THEN child_code ELSE Some(NO_EXITCODE)

\* if !status.success() { Err(..) }, and main's exit(1) for an error
ExitCodeOfReload(child_code) == IF child_code = Some(0) THEN Some(0) ELSE Some(1)

SigStart(mode, traps) ==
    /\ sig.pc = "idle"
    /\ sig' = [sig EXCEPT !.pc = "check_for_shim", !.mode = mode, !.traps = traps]
    /\ UNCHANGED <<parse_vars, cache, rt, shims, created, ms, res, mat, race, home_canonical, envrc, proc>>

\* check_for_shim does not return in a shim invocation.
SigCheckForShim ==
    /\ sig.pc = "check_for_shim"
    /\ sig' = [sig EXCEPT !.pc = IF sig.mode = "shim_invocation"
                                  THEN "spawn" ELSE "set_ctrlc_handler"]
    /\ UNCHANGED <<parse_vars, cache, rt, shims, created, ms, res, mat, race, home_canonical, envrc, proc>>

SetCtrlcHandler ==
    /\ sig.pc = "set_ctrlc_handler"
    /\ sig' = [sig EXCEPT !.handler = TRUE, !.pc = "command"]
    /\ UNCHANGED <<parse_vars, cache, rt, shims, created, ms, res, mat, race, home_canonical, envrc, proc>>

\* A reload that spawns its shell without passing control.
PassControlToShim_skipped ==
    /\ sig.pc = "command"
    /\ sig.mode = "reload"
    /\ sig' = [sig EXCEPT !.pc = "spawn"]
    /\ UNCHANGED <<parse_vars, cache, rt, shims, created, ms, res, mat, race, home_canonical, envrc, proc>>

\* compute_envvars on its way to spawning bash
PassControlToShim ==
    /\ sig.pc = "command"
    /\ sig.mode = "reload"
    /\ sig' = [sig EXCEPT !.SHIM_HAS_CONTROL = TRUE, !.pc = "spawn"]
    /\ UNCHANGED <<parse_vars, cache, rt, shims, created, ms, res, mat, race, home_canonical, envrc, proc>>

\* command_exec calls exec_shimmed_binary
CommandExecStep ==
    /\ sig.pc = "command"
    /\ sig.mode = "exec"
    /\ sig' = [sig EXCEPT !.pc = "spawn"]
    /\ UNCHANGED <<parse_vars, cache, rt, shims, created, ms, res, mat, race, home_canonical, envrc, proc>>

\* command_shim asks whether to continue; the prompt hides the cursor.
ConfirmPrompt ==
    /\ sig.pc = "command"
    /\ sig.mode = "shim"
    /\ sig' = [sig EXCEPT !.pc = "confirm", !.cursor = "hidden"]
    /\ UNCHANGED <<parse_vars, cache, rt, shims, created, ms, res, mat, race, home_canonical, envrc, proc>>

ConfirmAnswer(yes) ==
    /\ sig.pc = "confirm"
    /\ sig' = ProcessEnds([sig EXCEPT !.cursor = "shown"], Some(IF yes THEN 0 ELSE 1))
    /\ UNCHANGED <<parse_vars, cache, rt, shims, created, ms, res, mat, race, home_canonical, envrc, proc>>

SpawnChild ==
    /\ sig.pc = "spawn"
    /\ sig' = [sig EXCEPT !.pc = "wait", !.child = "running"]
    /\ UNCHANGED <<parse_vars, cache, rt, shims, created, ms, res, mat, race, home_canonical, envrc, proc>>

\* The child ends by itself, or ends its cleanup after an interrupt.
ChildEnds(code) ==
    /\ sig.child \in {"running", "cleanup"}
    /\ sig' = [sig EXCEPT !.child = "exited", !.child_code = Some(code),
                          !.out = IF sig.child = "cleanup" THEN Append(@, "bye") ELSE @]
    /\ UNCHANGED <<parse_vars, cache, rt, shims, created, ms, res, mat, race, home_canonical, envrc, proc>>

\* The child alone is ended by a signal it cannot handle.
KillChild ==
    /\ sig.child \in {"running", "cleanup"}
    /\ sig' = [sig EXCEPT !.child = "signaled", !.child_code = None]
    /\ UNCHANGED <<parse_vars, cache, rt, shims, created, ms, res, mat, race, home_canonical, envrc, proc>>

\* status() / wait() returns: the process exits, except that a reload whose
\* shell succeeded goes on to write the cache and to compute the advisory.
WaitReturns ==
    /\ sig.pc = "wait"
    /\ sig.child \in {"exited", "signaled"}
    /\ sig' = IF sig.mode = "reload" /\ sig.child_code = Some(0)
              THEN [sig EXCEPT !.pc = "write_cache"]
              ELSE ProcessEnds(sig, IF sig.mode = "reload" THEN ExitCodeOfReload(sig.child_code)
                                    ELSE ExitCodeFor(sig.child_code))
    /\ UNCHANGED <<parse_vars, cache, rt, shims, created, ms, res, mat, race, home_canonical, envrc, proc>>

\* The cache is written, check_unshimmed_commands has run, command_reload returns.
ReloadReturns ==
    /\ sig.pc = "write_cache"
    /\ sig' = ProcessEnds(sig, ExitCodeOfReload(sig.child_code))
    /\ UNCHANGED <<parse_vars, cache, rt, shims, created, ms, res, mat, race, home_canonical, envrc, proc>>

\* The terminal's interrupt reaches the process and the child it has launched.
Interrupt ==
    /\ sig.pc \notin {"idle", "exited"}
    /\ sig.interrupts < MaxInterrupts
    /\ sig' = [(IF sig.handler THEN ctrlc_handler(InterruptChild(sig))
                ELSE DefaultDisposition(InterruptChild(sig)))
               EXCEPT !.interrupts = @ + 1]
    /\ UNCHANGED <<parse_vars, cache, rt, shims, created, ms, res, mat, race, home_canonical, envrc, proc>>

SigNext ==
    \/ \E mode \in Modes, traps \in BOOLEAN : SigStart(mode, traps)
    \/ SigCheckForShim
    \/ SetCtrlcHandler
    \/ PassControlToShim
    \/ CommandExecStep
    \/ ConfirmPrompt
    \/ \E yes \in BOOLEAN : ConfirmAnswer(yes)
    \/ SpawnChild
    \/ \E code \in ChildCodes : ChildEnds(code)
    \/ KillChild
    \/ WaitReturns
    \/ ReloadReturns
    \/ Interrupt

-----------------------------------------------------------------------------
(* resolve_envrc_context, one loop iteration at a time, in any directory tree *)

TreeDirs == {FsRoot, ProjectRoot, ProjectSub, Outside}

\* What a directory holds under the name .envrc: nothing, a file that can be
\* opened, or a file the process may not open.
EnvrcKinds == {"absent", "readable", "unreadable"}

Trees == [TreeDirs -> EnvrcKinds]

\* std::fs::File::open(root.join(".envrc"))
File_open(tree, dir) ==
    IF tree[dir] = "readable" THEN "Ok"
    ELSE IF tree[dir] = "unreadable" THEN "PermissionDenied"
    ELSE "NotFound"

\* quickenv_home.join("envs/").join(hex::encode(blake3(envrc_path))): the digest
\* stands for its input, of which it is a function.
env_cache_path(envrc_path) == <<"home/envs">> \o (<<"blake3">> \o envrc_path)

ResIdle ==
    [pc |-> "idle", tree |-> [d \in TreeDirs |-> "absent"], cwd |-> FsRoot, fault |-> "none",
     root |-> FsRoot, err |-> "none", envrc_path |-> <<>>, env_cache_path |-> <<>>]

\* let mut root = std::env::current_dir().map_err(Error::CurrentDir)?;
ResCurrentDir ==
    /\ res.pc = "start"
    /\ res' = IF res.fault = "cwd"
              THEN [res EXCEPT !.pc = "failed", !.err = "CurrentDir"]
              ELSE [res EXCEPT !.pc = "loop", !.root = res.cwd]
    /\ UNCHANGED <<parse_vars, cache, rt, shims, created, ms, sig, mat, race, home_canonical, envrc, proc>>

\* if let Ok(f) = File::open(&path) { break (path, f) }
\* if !root.pop() { return Err(Error::NoEnvrc) }
ResIteration(r) ==
    IF File_open(r.tree, r.root) = "Ok"
    THEN [r EXCEPT !.pc = "found",
                   !.envrc_path = Append(r.root, ".envrc"),
                   !.env_cache_path = env_cache_path(Append(r.root, ".envrc"))]
    ELSE IF r.root = FsRoot
    THEN [r EXCEPT !.pc = "failed", !.err = "NoEnvrc"]
    ELSE [r EXCEPT !.root = SubSeq(r.root, 1, Len(r.root) - 1)]

ResLoop ==
    /\ res.pc = "loop"
    /\ res' = ResIteration(res)
    /\ UNCHANGED <<parse_vars, cache, rt, shims, created, ms, sig, mat, race, home_canonical, envrc, proc>>

-----------------------------------------------------------------------------
(* compute_envvars and its shell as two processes joined by a pipe *)

PipeCap == 2         \* lines the pipe holds before the shell's write blocks

\* echo '<line>' and env, the statements compute_envvars itself writes.
Say(line) == [op |-> "say", var |-> <<>>, value |-> line, cmd |-> "", code |-> 0]
EnvCmd == [op |-> "env", var |-> <<>>, value |-> <<>>, cmd |-> "", code |-> 0]

\* A script that runs the prelude ahead of the before block.
GeneratedScript_prelude_first(prelude, body) ==
    ((prelude \o <<Say(BEGIN_BEFORE), EnvCmd, Say(END_BEFORE)>>) \o body)
        \o <<Say(BEGIN_AFTER), EnvCmd, Say(END_AFTER)>>

\* write!(temp_script, ..{prelude}..); io::copy(&mut ctx.envrc, ..); write!(temp_script, ..)
GeneratedScript(prelude, body) ==
    ((<<Say(BEGIN_BEFORE), EnvCmd, Say(END_BEFORE)>> \o prelude) \o body)
        \o <<Say(BEGIN_AFTER), EnvCmd, Say(END_AFTER)>>

ShellStart(env) == [env |-> env, out |-> <<>>, hang |-> FALSE, exited |-> FALSE, code |-> 0]

MatIdle ==
    [parent |-> "idle", child |-> "none", prelude |-> <<>>, body |-> <<>>, script |-> <<>>,
     ip |-> 1, sh |-> ShellStart(EmptyEnv), spawn_env |-> EmptyEnv, pending |-> <<>>,
     pipe |-> <<>>, written |-> <<>>, st |-> ParserStart, stdout |-> <<>>,
     outcome |-> "none", status |-> None, cache |-> None, cache_before |-> None,
     SHIM_HAS_CONTROL |-> FALSE]

\* The process is about to spawn: the script file is written.
MatStart(env, body, file) ==
    [MatIdle EXCEPT !.parent = "start", !.prelude = PreludeOf(env), !.body = body,
                    !.script = GeneratedScript(PreludeOf(env), body),
                    !.spawn_env = EnvInsert(env, QUICKENV_NO_SHIM, One),
                    !.cache = file, !.cache_before = file]

\* signals::pass_control_to_shim(); Command::new("bash")...stdout(Stdio::piped()).spawn()
Spawned(m) ==
    [m EXCEPT !.parent = "reading", !.child = "running", !.SHIM_HAS_CONTROL = TRUE,
              !.sh = ShellStart(m.spawn_env)]

\* The shell runs its next statement; what the statement prints waits to be
\* written to the pipe.
ShellStatement(s, sh, cwd, w) ==
    IF s.op = "say" THEN [sh EXCEPT !.out = s.value \o <<NL>>]
    ELSE IF s.op = "env" THEN [sh EXCEPT !.out = Dump(sh.env)]
    ELSE RunStatement(s, sh, cwd, w, 0)

ShellRuns(m, cwd, w) ==
    [m EXCEPT !.ip = @ + 1,
              !.sh = [ShellStatement(m.script[m.ip], m.sh, cwd, w) EXCEPT !.out = <<>>],
              !.pending = SplitLines(ShellStatement(m.script[m.ip], m.sh, cwd, w).out)]

\* write(2) on the pipe, one line at a time.
ShellWrites(m) ==
    [m EXCEPT !.pending = Tail(@), !.pipe = Append(@, Head(m.pending)),
              !.written = Append(@, Head(m.pending))]

ShellDone(m) == m.sh.exited \/ m.ip > Len(m.script)

\* The shell's end closes the write end of the pipe.
ShellExits(m) == [m EXCEPT !.child = "exited", !.status = Some(m.sh.code)]

\* A parent that mirrors nothing while it parses.
Consume_silent(m) ==
    [m EXCEPT !.pipe = Tail(@), !.st = ParseStep(m.st, Head(m.pipe)),
              !.parent = IF ParseStep(m.st, Head(m.pipe)).panic THEN "done" ELSE @,
              !.outcome = IF ParseStep(m.st, Head(m.pipe)).panic THEN "panic" ELSE @]

\* One iteration of parse_env_diff's loop on the pipe: the callback writes a
\* pass-through line and b"\n" to the process's own standard output.
Consume(m) ==
    [m EXCEPT !.pipe = Tail(@), !.st = ParseStep(m.st, Head(m.pipe)),
              !.stdout = ParseStep([m.st EXCEPT !.output = m.stdout], Head(m.pipe)).output,
              !.parent = IF ParseStep(m.st, Head(m.pipe)).panic THEN "done" ELSE @,
              !.outcome = IF ParseStep(m.st, Head(m.pipe)).panic THEN "panic" ELSE @]

\* A parent that calls cmd.wait() without reading the pipe to its end.
AtEof_unread(m) == TRUE

\* reader.split(b'\n') ends: the pipe is empty and its write end is closed.
AtEof(m) == m.pipe = <<>> /\ m.child = "exited"

\* A reload that takes a stream without the end of the after block for a failure.
Decided_needs_end(m) ==
    IF Unwrap(m.status) # 0 \/ m.st.parse_state # "End"
    THEN [m EXCEPT !.parent = "done", !.outcome = "error"]
    ELSE [m EXCEPT !.parent = "done", !.outcome = "ok",
                   !.cache = Some(CacheBytes(m.st.old_env, m.st.new_env))]

\* let status = cmd.wait()?; if !status.success() { Err } else { File::create; write }
Decided(m) ==
    IF Unwrap(m.status) # 0 THEN [m EXCEPT !.parent = "done", !.outcome = "error"]
    ELSE [m EXCEPT !.parent = "done", !.outcome = "ok",
                   !.cache = Some(CacheBytes(m.st.old_env, m.st.new_env))]

MatSpawn ==
    /\ mat.parent = "start"
    /\ mat' = Spawned(mat)
    /\ UNCHANGED <<parse_vars, cache, rt, shims, created, ms, sig, res, race, home_canonical, envrc, proc>>

ShellRun ==
    /\ mat.child = "running" /\ mat.pending = <<>> /\ ~ShellDone(mat)
    /\ mat' = ShellRuns(mat, ProjectRoot, W)
    /\ UNCHANGED <<parse_vars, cache, rt, shims, created, ms, sig, res, race, home_canonical, envrc, proc>>

ShellWrite ==
    /\ mat.child = "running" /\ mat.pending # <<>> /\ Len(mat.pipe) < PipeCap
    /\ mat' = ShellWrites(mat)
    /\ UNCHANGED <<parse_vars, cache, rt, shims, created, ms, sig, res, race, home_canonical, envrc, proc>>

ShellExit ==
    /\ mat.child = "running" /\ mat.pending = <<>> /\ ShellDone(mat)
    /\ mat' = ShellExits(mat)
    /\ UNCHANGED <<parse_vars, cache, rt, shims, created, ms, sig, res, race, home_canonical, envrc, proc>>

MatReadLine ==
    /\ mat.parent = "reading" /\ mat.pipe # <<>>
    /\ mat' = Consume(mat)
    /\ UNCHANGED <<parse_vars, cache, rt, shims, created, ms, sig, res, race, home_canonical, envrc, proc>>

MatReadEof ==
    /\ mat.parent = "reading" /\ AtEof(mat)
    /\ mat' = [mat EXCEPT !.parent = "waiting"]
    /\ UNCHANGED <<parse_vars, cache, rt, shims, created, ms, sig, res, race, home_canonical, envrc, proc>>

MatWait ==
    /\ mat.parent = "waiting" /\ mat.child = "exited"
    /\ mat' = Decided(mat)
    /\ UNCHANGED <<parse_vars, cache, rt, shims, created, ms, sig, res, race, home_canonical, envrc, proc>>

-----------------------------------------------------------------------------
(* Processes that share one cache file: two reloads and a shim dispatch *)

BufCap == 4          \* bytes BufWriter holds before it writes them to the file

NUL == "NUL"

Writers == {"A", "B"}

\* A creation that replaces the file atomically (its bytes appear complete).
File_create_atomic(file, bytes) == Some(bytes)

\* File::create(&ctx.env_cache_path): open(O_WRONLY | O_CREAT | O_TRUNC); the
\* file is empty from here on, whatever the writer is about to write.
File_create(file, bytes) == Some(<<>>)

\* write(2) at the offset of the writer's own open file description: bytes
\* already there are overwritten, the file grows as needed, and a gap between
\* its end and the offset reads as zero bytes.
WriteAt(bytes, off, chunk) ==
    [i \in 1..(IF Len(bytes) > off + Len(chunk) THEN Len(bytes) ELSE off + Len(chunk)) |->
        IF i > off /\ i <= off + Len(chunk) THEN chunk[i - off]
        ELSE IF i <= Len(bytes) THEN bytes[i]
        ELSE NUL]

\* What BufWriter hands to write(2) next: a full buffer, or the rest when it
\* is flushed at the end.
NextChunk(left) == SubSeq(left, 1, IF Len(left) > BufCap THEN BufCap ELSE Len(left))

RaceWriterIdle == [pc |-> "none", bytes |-> <<>>, off |-> 0]

RaceIdle ==
    [file |-> None, prev |-> None, w |-> [p \in Writers |-> RaceWriterIdle],
     rd |-> [pc |-> "none", seen |-> None, during |-> {}, at |-> [p \in Writers |-> 0],
             find |-> NoResult]]

\* The world the dispatch runs in: the project of the acceptance tests with
\* the cache file as it is at this moment.
RaceWorld(file) ==
    [cache |-> file, shims |-> {"hello"}, home_canonical |-> TRUE,
     envrc |-> <<PrependPath(Bogus)>>, created |-> {}]

RaceEnv == EnvInsert(EmptyEnv, PATH, (HomeBin \o <<COLON>>) \o UsrBin)

\* let mut writer = BufWriter::new(File::create(..)?)
RaceCreated(r, p) ==
    [r EXCEPT !.file = File_create(r.file, r.w[p].bytes), !.w[p].pc = "writing", !.w[p].off = 0]

\* One write(2) of the writer, of the buffer's content.
RaceFlushed(r, p) ==
    [r EXCEPT !.file = Some(WriteAt(Unwrap(r.file), r.w[p].off,
                                    NextChunk(SubSeq(r.w[p].bytes, r.w[p].off + 1, Len(r.w[p].bytes))))),
              !.w[p].off = @ + Len(NextChunk(SubSeq(r.w[p].bytes, r.w[p].off + 1, Len(r.w[p].bytes))))]

\* A shim dispatch: get_envvars reads the file as it is now, and
\* find_shimmed_binary goes on with what was loaded.
RaceDispatched(r) ==
    [r EXCEPT !.rd = [pc |-> "done", seen |-> r.file,
                      during |-> {p \in Writers : r.w[p].pc = "writing"},
                      at |-> [p \in Writers |-> r.w[p].off],
                      find |-> find_shimmed_binary("hello", RaceEnv, ProjectRoot,
                                                   RaceWorld(r.file), "none")]]

RaceCreate(p) ==
    /\ race.w[p].pc = "start"
    /\ race' = RaceCreated(race, p)
    /\ UNCHANGED <<parse_vars, cache, rt, shims, created, ms, sig, res, mat, home_canonical, envrc, proc>>

RaceFlush(p) ==
    /\ race.w[p].pc = "writing"
    /\ race.w[p].off < Len(race.w[p].bytes)
    /\ race' = RaceFlushed(race, p)
    /\ UNCHANGED <<parse_vars, cache, rt, shims, created, ms, sig, res, mat, home_canonical, envrc, proc>>

\* The writer is dropped; compute_envvars returns Ok.
RaceClose(p) ==
    /\ race.w[p].pc = "writing"
    /\ race.w[p].off = Len(race.w[p].bytes)
    /\ race' = [race EXCEPT !.w[p].pc = "done"]
    /\ UNCHANGED <<parse_vars, cache, rt, shims, created, ms, sig, res, mat, home_canonical, envrc, proc>>

RaceDispatch ==
    /\ race.rd.pc = "start"
    /\ race' = RaceDispatched(race)
    /\ UNCHANGED <<parse_vars, cache, rt, shims, created, ms, sig, res, mat, home_canonical, envrc, proc>>

-----------------------------------------------------------------------------
(* One run of get_missing_shims *)

MsIdle == [pc |-> "idle", new_path |-> None, env |-> EmptyEnv, cwd |-> FsRoot,
           err |-> "none", rv |-> {}]

MsRun ==
    /\ ms.pc = "start"
    /\ ms' = [ms EXCEPT !.pc = "done",
                        !.err = get_missing_shims(ms.new_path, ms.env, ms.cwd, W).err,
                        !.rv = get_missing_shims(ms.new_path, ms.env, ms.cwd, W).rv]
    /\ UNCHANGED <<parse_vars, cache, rt, shims, created, sig, res, mat, race, home_canonical, envrc, proc>>

InitMissing ==
    /\ ParseIdle
    /\ rt = RtIdle
    /\ cache = None
    /\ shims \in SUBSET Commands
    /\ created \in SUBSET Creatable
    /\ home_canonical \in BOOLEAN
    /\ envrc = <<>>
    /\ proc = NoProc
    /\ sig = SigIdle
    /\ res = ResIdle
    /\ mat = MatIdle
    /\ race = RaceIdle
    /\ \E new_path \in NewPaths, env \in OldEnvs, cwd \in Cwds :
           ms = [MsIdle EXCEPT !.pc = "start", !.new_path = new_path, !.env = env, !.cwd = cwd]

AuxIdle ==
    /\ ms = MsIdle
    /\ sig = SigIdle
    /\ res = ResIdle
    /\ mat = MatIdle
    /\ race = RaceIdle

WorldIdle ==
    /\ shims = {}
    /\ created = {}
    /\ home_canonical = TRUE
    /\ envrc = <<>>
    /\ proc = NoProc

Init ==
    /\ ParseIdle
    /\ rt = RtIdle
    /\ cache = None
    /\ shims \in SUBSET Commands
    /\ home_canonical \in BOOLEAN
    /\ envrc \in Envrcs
    /\ proc = NoProc
    /\ created = {}
    /\ AuxIdle

-----------------------------------------------------------------------------
(* Specifications *)

ParseNext == ParseLine \/ ParseReturn

InitParse ==
    /\ ParseInit
    /\ cache = None
    /\ rt = RtIdle
    /\ WorldIdle
    /\ AuxIdle

SpecParse == InitParse /\ [][ParseNext]_vars

RtNext == RtSave \/ RtLoad

InitCache ==
    /\ RtInit
    /\ WorldIdle
    /\ AuxIdle

SpecCache == InitCache /\ [][RtNext]_vars

Next ==
    \/ \E argv0 \in Argv0s, cwd \in Cwds, env \in AmbientEnvs, fault \in Faults :
           Main(argv0, cwd, env, fault, {})
    \/ ProcessExit
    \/ \E script \in Envrcs : EditEnvrc(script)

Spec == Init /\ [][Next]_vars

InitSignal ==
    /\ ParseIdle
    /\ rt = RtIdle
    /\ cache = None
    /\ WorldIdle
    /\ AuxIdle

SpecSignal == InitSignal /\ [][SigNext]_vars

SpecMissing == InitMissing /\ [][MsRun]_vars

InitResolve ==
    /\ ParseIdle
    /\ rt = RtIdle
    /\ cache = None
    /\ shims = {}
    /\ created = {}
    /\ home_canonical = TRUE
    /\ envrc = <<>>
    /\ proc = NoProc
    /\ ms = MsIdle
    /\ sig = SigIdle
    /\ mat = MatIdle
    /\ race = RaceIdle
    /\ \E tree \in Trees, cwd \in TreeDirs, fault \in {"none", "cwd"} :
           res = [ResIdle EXCEPT !.pc = "start", !.tree = tree, !.cwd = cwd, !.fault = fault]

ResNext == ResCurrentDir \/ ResLoop

SpecResolve == InitResolve /\ [][ResNext]_vars

\* One reload seen from inside: the ambient environment, the prelude the user
\* configured, the activation file and the cache file there was before.
RunEnvs ==
    { EnvInsert(EmptyEnv, PATH, UsrBin),
      EnvInsert(EnvInsert(EmptyEnv, PATH, UsrBin), MYVALUE, Old),
      EnvInsert(EnvInsert(EmptyEnv, PATH, UsrBin), QUICKENV_PRELUDE, ExportText(MYVALUE, Canary)),
      EnvInsert(EnvInsert(EmptyEnv, PATH, UsrBin), QUICKENV_PRELUDE, <<>>) }

RunBodies ==
    { <<>>,
      <<PrependPath(Bogus)>>,
      <<Echo(MYVALUE), Exit(1)>>,
      <<Echo(MYVALUE), Export(MYVALUE, Old)>>,
      <<Export(MYVALUE, TwoLines)>>,
      <<Export(MYVALUE, Canary), Exit(0)>>,
      <<Echo(MYVALUE), Unset(MYVALUE), Echo(PATH)>> }

RunCaches == {None, Some((MYVALUE \o <<EQ>>) \o (Old \o <<NL>>))}

InitRun ==
    /\ ParseIdle
    /\ rt = RtIdle
    /\ cache = None
    /\ WorldIdle
    /\ ms = MsIdle
    /\ sig = SigIdle
    /\ res = ResIdle
    /\ race = RaceIdle
    /\ \E env \in RunEnvs, body \in RunBodies, file \in RunCaches : mat = MatStart(env, body, file)

RunNext ==
    \/ MatSpawn
    \/ ShellRun
    \/ ShellWrite
    \/ ShellExit
    \/ MatReadLine
    \/ MatReadEof
    \/ MatWait

SpecRun == InitRun /\ [][RunNext]_vars

\* The reading process is scheduled: a read that has data or has reached the
\* end of the stream returns, and so does wait once the shell has exited.
SpecRunFair ==
    InitRun /\ [][RunNext]_vars /\ WF_vars(MatReadLine) /\ WF_vars(MatReadEof) /\ WF_vars(MatWait)

\* The diffs the reloads are about to write, and the file there was before. A
\* reload in an environment that already has a variable at the script's value
\* writes no record for it.
RaceDiffs ==
    { <<>>,
      CacheBytes(EmptyEnv, EnvInsert(EmptyEnv, MYVALUE, Old)),
      CacheBytes(EmptyEnv, EnvInsert(EmptyEnv, PATH, UsrBin)),
      CacheBytes(EmptyEnv, EnvInsert(EnvInsert(EmptyEnv, PATH, UsrBin), MYVALUE, Canary)) }

RaceFiles == {None, Some(CacheBytes(EmptyEnv, EnvInsert(EnvInsert(EmptyEnv, PATH, Bogus), MYVALUE, Old)))}

InitRace ==
    /\ ParseIdle
    /\ rt = RtIdle
    /\ cache = None
    /\ WorldIdle
    /\ ms = MsIdle
    /\ sig = SigIdle
    /\ res = ResIdle
    /\ mat = MatIdle
    /\ \E file \in RaceFiles, a \in RaceDiffs, b \in RaceDiffs, second \in BOOLEAN :
           race = [RaceIdle EXCEPT !.file = file, !.prev = file,
                                   !.w["A"] = [pc |-> "start", bytes |-> a, off |-> 0],
                                   !.w["B"] = IF second THEN [pc |-> "start", bytes |-> b, off |-> 0]
                                              ELSE RaceWriterIdle,
                                   !.rd.pc = "start"]

RaceNext ==
    \/ \E p \in Writers : RaceCreate(p)
    \/ \E p \in Writers : RaceFlush(p)
    \/ \E p \in Writers : RaceClose(p)
    \/ RaceDispatch

SpecRace == InitRace /\ [][RaceNext]_vars

\* The commands that manage shims, in a project whose activation file puts the
\* bogus directory on PATH.
ShimArgv0s == Argv0s \cup {HomeBin \o <<c>> : c \in Creatable}

ShimEnvs ==
    { (PATH :> JoinPaths(<<HomeBin, UsrBin>>)),
      (PATH :> JoinPaths(<<Bogus, HomeBin, UsrBin>>)),                 \* test_shadowed
      (PATH :> JoinPaths(<<HomeBin, UsrBin>>)) @@ (QUICKENV_NO_SHIM_WARNINGS :> One),
      (PATH :> JoinPaths(<<LinkBin, UsrBin>>)),
      (PATH :> JoinPaths(<<UsrBin>>)) }

ShimCwds == {ProjectRoot, Outside}

InitShim ==
    /\ ParseIdle
    /\ rt = RtIdle
    /\ cache = None
    /\ shims = {}
    /\ created = {}
    /\ home_canonical = TRUE
    /\ envrc = <<PrependPath(Bogus)>>
    /\ proc = NoProc
    /\ AuxIdle

ShimNext ==
    \/ \E argv0 \in ShimArgv0s, cwd \in ShimCwds, env \in ShimEnvs, creates \in SUBSET Creatable :
           Main(argv0, cwd, env, "none", creates)
    \/ \E commands \in Requests, answer \in BOOLEAN, cwd \in ShimCwds, env \in ShimEnvs :
           CommandShim(commands, answer, cwd, env)
    \/ \E commands \in Requests, cwd \in ShimCwds, env \in ShimEnvs :
           CommandUnshim(commands, cwd, env)
    \/ ProcessExit

SpecShim == InitShim /\ [][ShimNext]_vars

\* The commands that report, next to reload and dispatch, in a project whose
\* activation file is empty or puts the bogus directory on PATH.
Programs == {<<"hello">>, <<"hello2">>}

\* Dispatches in both transfer modes, through a shim and through quickenv exec;
\* the last PATH has an empty entry, which stands for the working directory.
ExecEnvs ==
    { (PATH :> JoinPaths(<<HomeBin, UsrBin>>)),
      (PATH :> JoinPaths(<<HomeBin, UsrBin>>)) @@ (QUICKENV_SHIM_EXEC :> One),
      (PATH :> JoinPaths(<<HomeBin, UsrBin>>)) @@ (MYVALUE :> Old) @@ (QUICKENV_SHIM_EXEC :> One),
      (PATH :> JoinPaths(<<HomeBin, UsrBin>>)) @@ (MYVALUE :> Old) @@ (QUICKENV_SHIM_EXEC :> Old),
      (PATH :> JoinPaths(<<HomeBin, UsrBin>>)) @@ (QUICKENV_NO_SHIM :> One),
      (PATH :> JoinPaths(<<HomeBin, <<>>, UsrBin>>)) }

ExecEnvrcs == {<<PrependPath(Bogus)>>, <<Export(MYVALUE, Canary)>>}

InitExec ==
    /\ ParseIdle
    /\ rt = RtIdle
    /\ cache = None
    /\ shims \in SUBSET Commands
    /\ created \in SUBSET Creatable
    /\ home_canonical = TRUE
    /\ envrc \in ExecEnvrcs
    /\ proc = NoProc
    /\ AuxIdle

ExecNext ==
    \/ \E argv0 \in Argv0s, cwd \in ShimCwds, env \in ExecEnvs, fault \in Faults :
           Main(argv0, cwd, env, fault, {})
    \/ \E program_name \in Programs, cwd \in ShimCwds, env \in ExecEnvs, fault \in Faults :
           CommandExec(program_name, cwd, env, fault, {})
    \/ ProcessExit

SpecExec == InitExec /\ [][ExecNext]_vars

CmdEnvs ==
    { (PATH :> JoinPaths(<<HomeBin, UsrBin>>)),
      (PATH :> JoinPaths(<<UsrBin>>)),
      (PATH :> JoinPaths(<<LinkBin, UsrBin>>)),
      (PATH :> JoinPaths(<<HomeBin, UsrBin>>)) @@ (QUICKENV_NO_SHIM :> One) }

CmdFaults == Faults \cup {"open"}

CmdEnvrcs == {<<>>, <<PrependPath(Bogus)>>}

InitCmd ==
    /\ ParseIdle
    /\ rt = RtIdle
    /\ cache = None
    /\ shims \in SUBSET Commands
    /\ created \in SUBSET Creatable
    /\ home_canonical \in BOOLEAN
    /\ envrc \in CmdEnvrcs
    /\ proc = NoProc
    /\ AuxIdle

CmdNext ==
    \/ \E argv0 \in Argv0s, cwd \in ShimCwds, env \in CmdEnvs, fault \in CmdFaults :
           Main(argv0, cwd, env, fault, {})
    \/ \E cwd \in ShimCwds, env \in CmdEnvs, fault \in CmdFaults :
           CommandVars(cwd, env, fault)
    \/ \E program_name \in Programs, pretend_shimmed \in BOOLEAN, cwd \in ShimCwds,
          env \in CmdEnvs, fault \in CmdFaults :
           CommandWhich(program_name, pretend_shimmed, cwd, env, fault)
    \/ \E program_name \in Programs, cwd \in ShimCwds, env \in CmdEnvs, fault \in CmdFaults :
           CommandExec(program_name, cwd, env, fault, {})
    \/ \E cwd \in ShimCwds, env \in CmdEnvs : CommandShim(<<>>, FALSE, cwd, env)
    \/ ProcessExit
    \/ \E script \in CmdEnvrcs : EditEnvrc(script)

SpecCmd == InitCmd /\ [][CmdNext]_vars

-----------------------------------------------------------------------------
(* C1 *)

\* The snapshot a block of lines encodes: one variable per name that starts a
\* record; its value is the rest of the last record line with that name, followed
\* by the separator-free lines up to the next record line, joined by newlines.
RecordStarts(block) == {i \in 1..Len(block) : HasEq(block[i])}

NameAt(block, i) == SubSeq(block[i], 1, FirstEq(block[i]) - 1)

LastStart(block, k) ==
    CHOOSE i \in RecordStarts(block) :
        /\ NameAt(block, i) = k
        /\ \A j \in RecordStarts(block) : NameAt(block, j) = k => j <= i

RecordEnd(block, i) ==
    CHOOSE j \in i..Len(block) :
        /\ \A h \in (i + 1)..j : ~HasEq(block[h])
        /\ (j = Len(block) \/ HasEq(block[j + 1]))

RECURSIVE JoinNL(_)
JoinNL(ls) ==
    IF Len(ls) = 1 THEN Head(ls) ELSE (Head(ls) \o <<NL>>) \o JoinNL(Tail(ls))

ValueAt(block, i) ==
    JoinNL(<<SubSeq(block[i], FirstEq(block[i]) + 1, Len(block[i]))>>
           \o SubSeq(block, i + 1, RecordEnd(block, i)))

SnapshotOf(block) ==
    [k \in {NameAt(block, i) : i \in RecordStarts(block)} |-> ValueAt(block, LastStart(block, k))]

Elems(s) == {s[i] : i \in 1..Len(s)}

WellFormed(s) ==
    /\ Elems(s.pre) \cap Sentinels = {}
    /\ Elems(s.mid) \cap Sentinels = {}
    /\ Elems(s.post) \cap Sentinels = {}
    /\ END_BEFORE \notin Elems(s.before)
    /\ END_AFTER \notin Elems(s.after)
    /\ (s.before # <<>> => HasEq(s.before[1]))
    /\ (s.after # <<>> => HasEq(s.after[1]))

\* C1: for every well-formed stream, parse_env_diff returns without panicking,
\* the two snapshots are exactly those encoded by the before and the after block,
\* and the callback has received exactly the lines outside the blocks that are
\* not sentinels, each once and in their original order.
C1_ParserRecoversSnapshots ==
    (parse_pc \in {"returned", "panicked"} /\ WellFormed(segments)) =>
        /\ parse_pc = "returned"
        /\ old_env = SnapshotOf(segments.before)
        /\ new_env = SnapshotOf(segments.after)
        /\ script_output = (segments.pre \o segments.mid) \o segments.post

C1_Witness ==
    /\ parse_pc = "returned"
    /\ WellFormed(segments)
    /\ segments.pre # <<>>
    /\ Len(segments.after) = 2
    /\ ~HasEq(segments.after[2])

-----------------------------------------------------------------------------
(* C4 *)

-----------------------------------------------------------------------------
(* C2 *)

ReloadOk == proc.kind = "reload" /\ proc.reload.outcome = "ok"

DiffKeys(old, new) == {k \in DOMAIN new : k \notin DOMAIN old \/ old[k] # new[k]}

Orderings(S) ==
    {s \in [1..Cardinality(S) -> S] : \A i, j \in 1..Cardinality(S) : s[i] = s[j] => i = j}

\* The file is the records name=value of the keys ks, each once, in some order.
HoldsExactly(bytes, keys, new) ==
    \E ks \in Orderings(keys) :
        bytes = Flatten([i \in 1..Len(ks) |-> ((ks[i] \o <<EQ>>) \o new[ks[i]]) \o <<NL>>])

NamesIn(bytes) == {NameAt(SplitLines(bytes), i) : i \in RecordStarts(SplitLines(bytes))}

\* C2: after a successful materialize the cache file holds exactly the pairs
\* (k, v) of the after snapshot for which the before snapshot has no k or another
\* value for k; a key whose value is unchanged and a key that is only in the
\* before snapshot are not in the file.
C2_CacheHoldsChangedPairs ==
    ReloadOk =>
        /\ cache # None
        /\ HoldsExactly(Unwrap(cache), DiffKeys(proc.reload.old_env, proc.reload.new_env),
                        proc.reload.new_env)
        /\ \A k \in DOMAIN proc.reload.old_env :
              (k \notin DOMAIN proc.reload.new_env
                 \/ proc.reload.new_env[k] = proc.reload.old_env[k])
              => k \notin NamesIn(Unwrap(cache))

C2_Witness ==
    /\ ReloadOk
    /\ DiffKeys(proc.reload.old_env, proc.reload.new_env) # {}
    /\ \E k \in DOMAIN proc.reload.old_env : k \notin DOMAIN proc.reload.new_env
    /\ \E k \in DOMAIN proc.reload.old_env :
          k \in DOMAIN proc.reload.new_env /\ proc.reload.new_env[k] = proc.reload.old_env[k]

-----------------------------------------------------------------------------
(* C3 *)

ChildFailed ==
    proc.kind = "reload" /\ proc.reload.child # None /\ proc.reload.child # Some(0)

\* C3: when the activation subprocess exits with a non-zero status, reload
\* fails with exit code 1 and the cache file is as it was before the run:
\* absent if it never existed, else the diff that was written last.
C3_FailedRunLeavesCache ==
    ChildFailed =>
        /\ proc.reload.outcome = "error"
        /\ proc.exit = Some(1)
        /\ cache = proc.cache_before

C3_Witness == ChildFailed /\ proc.cache_before # None /\ proc.cache_before # Some(<<>>)

-----------------------------------------------------------------------------
(* C5 *)

SameAgain(second) == second.outcome = "ok" /\ second.cache = cache

\* C5: reload is idempotent: a second reload in the same context, with the same
\* ambient environment and the same activation file, leaves the cached diff
\* the first one left.
C5_ReloadIdempotent ==
    ReloadOk => SameAgain(compute_envvars(proc.cwd, proc.env, W))

C5_Witness ==
    /\ ReloadOk
    /\ "bash" \in shims
    /\ PATH \in DOMAIN proc.env
    /\ Head(split_paths(proc.env[PATH])) = HomeBin
    /\ cache # proc.cache_before
    /\ cache # Some(<<>>)

-----------------------------------------------------------------------------
(* C6 *)

\* What the cache file can hold when a reload starts: nothing, an empty diff,
\* a diff whose PATH re-adds the shim directory, a diff of another variable, and
\* a file get_envvars cannot load.
OldCaches ==
    { None,
      Some(<<>>),
      Some(((PATH \o <<EQ>>) \o JoinPaths(<<Bogus, HomeBin, UsrBin>>)) \o <<NL>>),
      Some(((MYVALUE \o <<EQ>>) \o Canary) \o <<NL>>),
      Some(<<"b", NL>>) }

SameRun(first, other) ==
    /\ other.outcome = first.outcome
    /\ other.stdout = first.stdout
    /\ other.old_env = first.old_env
    /\ other.new_env = first.new_env
    /\ first.outcome = "ok" => other.cache = first.cache

\* C6: a materialization run never observes the cached diff: the subprocess
\* runs with QUICKENV_NO_SHIM=1, a shim dispatch under that flag loads no
\* overrides, and so the pass-through output, the snapshots and the new cache of
\* a reload are the same whatever the cache file held before.
C6_ReloadIgnoresOldCache ==
    (proc.kind = "reload" /\ proc.materialized) =>
        /\ proc.reload.old_env # EmptyEnv => FlagSet(proc.reload.old_env, QUICKENV_NO_SHIM)
        /\ \A c \in OldCaches :
              SameRun(proc.reload, compute_envvars(proc.cwd, proc.env, [W EXCEPT !.cache = c]))

C6_Witness ==
    /\ ReloadOk
    /\ shims = {"bash", "hello"}
    /\ \E i \in 1..Len(envrc) : envrc[i].op = "call"
    /\ PATH \in DOMAIN proc.env
    /\ Head(split_paths(proc.env[PATH])) = HomeBin
    /\ proc.cache_before # None
    /\ proc.cache_before # Some(<<>>)
    /\ proc.reload.stdout # <<>>

-----------------------------------------------------------------------------
(* C7 *)

\* C7: under a basename equal to "quickenv", check_for_shim returns without
\* resolving a context, reading the cache or launching a target, whatever the
\* cache holds; shim resolution is entered only under another basename.
C7_OwnNameIsNoShim ==
    /\ (proc.pc = "exited" /\ file_name(proc.argv0) = "quickenv")
         => (~proc.shim_entered /\ proc.find = NoResult /\ proc.child = None)
    /\ proc.shim_entered => file_name(proc.argv0) # "quickenv"

C7_Witness ==
    /\ proc.pc = "exited"
    /\ proc.argv0 = HomeBin \o <<"quickenv">>
    /\ proc.cache_before # None
    /\ ~proc.shim_entered

-----------------------------------------------------------------------------
(* C8 *)

TargetKind(f, cwd) ==
    IF f.path = None THEN "none" ELSE FileKind(Unwrap(f.path).dir, Unwrap(f.path).name, cwd, W)

\* C8: shim dispatch never recurses without bound: for every PATH and every
\* cache state, and also when the activation file launches a shimmed command,
\* the target a shim resolves is never a shim, and every run ends by launching
\* a binary that is no shim or with an error.
C8_DispatchNeverRecurses ==
    proc.pc = "exited" =>
        /\ TargetKind(proc.find, proc.cwd) # "shim"
        /\ proc.exit # None

-----------------------------------------------------------------------------
(* C9 *)

\* C9: the amended PATH holds no entry that resolves to the shim directory:
\* every such entry is removed, whether the PATH came from the cached diff or
\* from the ambient environment.
C9_AmendedPathHasNoShimDir ==
    (proc.kind = "shim" /\ proc.find.old_path # None) =>
        \A e \in Elems(split_paths(proc.find.envvars_override[PATH])) :
            ~IsShimDir(e, proc.cwd, home_canonical)

-----------------------------------------------------------------------------
(* C10 *)

ShimUnflagged == proc.kind = "shim" /\ ~FlagSet(proc.env, QUICKENV_NO_SHIM)

NoContextOrCache ==
    proc.fault # "cwd" /\ (WalkUp(proc.cwd).err = "NoEnvrc" \/ (proc.fault = "none" /\ cache = None))

CacheInContext ==
    proc.fault = "none" /\ WalkUp(proc.cwd).err = "none" /\ cache # None

OtherFailure ==
    proc.fault = "cwd" \/ (proc.fault = "read" /\ WalkUp(proc.cwd).err = "none" /\ cache # None)

-----------------------------------------------------------------------------
(* C11 *)
\* C11: if the invoked basename cannot be found on the amended PATH, dispatch
\* fails with an error that names the basename, no target process is started,
\* and the process exits with code 1.
C11_NotFoundIsHardError ==
    (proc.pc = "exited" /\ proc.kind = "shim" /\ proc.find.err = "BinaryNotFound")
        => /\ proc.find.message = <<"failed to find ", file_name(proc.argv0)>>
           /\ proc.find.path = None
           /\ proc.child = None
           /\ proc.exit = Some(1)

\* A shim started with a PATH that holds nothing but the shim directory.
C11_Witness ==
    /\ proc.pc = "exited"
    /\ proc.kind = "shim"
    /\ proc.find.err = "BinaryNotFound"
    /\ proc.env = (PATH :> JoinPaths(<<HomeBin>>))
    /\ file_name(proc.argv0) = "hello"

-----------------------------------------------------------------------------
(* C12 *)
Dispatching == sig.mode \in {"shim_invocation", "exec"}

-----------------------------------------------------------------------------
(* C13 *)
\* C13: when an interrupt arrives while a program launched by shim dispatch or
\* by quickenv exec is running as a subprocess, the parent does not exit
\* early: it exits only after the child has terminated, so the child's
\* cleanup output comes before anything that follows quickenv's exit.
C13_ParentOutlivesChild ==
    (Dispatching /\ sig.pc = "exited" /\ sig.child # "none")
        => /\ sig.child \in {"exited", "signaled"}
           /\ \A i, j \in 1..Len(sig.out) :
                  (sig.out[i] = "new_prompt" /\ sig.out[j] = "bye") => j < i

-----------------------------------------------------------------------------
(* C14 *)
HandlerRuns == sig.handler /\ sig'.interrupts = sig.interrupts + 1

\* C14: the interrupt handler acts on the control flag only: with the flag
\* saying that the parent has control it restores the cursor and ends the
\* process with code 130; with the flag saying that the child has control it
\* does nothing and the process keeps running.
C14_HandlerActsOnFlag ==
    [][HandlerRuns =>
          IF ~sig.SHIM_HAS_CONTROL
          THEN /\ sig'.cursor = "shown"
               /\ sig'.pc = "exited"
               /\ sig'.exit = Some(130)
          ELSE /\ sig'.pc = sig.pc
               /\ sig'.pc # "exited"
               /\ sig'.exit = None
               /\ sig'.cursor = sig.cursor
               /\ sig'.SHIM_HAS_CONTROL]_vars

\* The handler has run while the child had control, and the process still waits.
C14_Witness ==
    /\ sig.handler
    /\ sig.SHIM_HAS_CONTROL
    /\ sig.interrupts = 1
    /\ sig.pc = "wait"
    /\ sig.child = "cleanup"

-----------------------------------------------------------------------------
(* C15 *)
Returned == ms.pc = "done" /\ ms.err = "none"

\* The canonical directories of a PATH value.
CanonicalDirs(path) ==
    {CanonicalOrSelf(split_paths(path)[i], ms.cwd, W) : i \in 1..Len(split_paths(path))}

\* The new directories: on the new PATH and not on the ambient one.
NewDirs ==
    IF ms.new_path = None THEN {}
    ELSE CanonicalDirs(Unwrap(ms.new_path)) \ CanonicalDirs(ms.env[PATH])

EntriesOf(dirs) ==
    UNION {IF ReadDir(d, W) = None THEN {} ELSE Unwrap(ReadDir(d, W)) : d \in dirs}

\* C15: get_missing_shims returns exactly the set of basenames f such that f
\* is a non-directory file with an executable bit in some directory of the new
\* PATH whose canonical form is not among the canonical directories of the
\* ambient PATH, and no shim named f exists in home/bin; non-executable files,
\* directories, files of directories already on the ambient PATH and
\* already-shimmed names are never reported, and with no new PATH the result
\* is empty.
C15_MissingShimsExact ==
    Returned =>
        /\ ms.rv = {e.name : e \in {x \in EntriesOf(NewDirs) : ~x.is_dir /\ x.executable}}
                       \ (shims \cup {"quickenv"})
        /\ ms.rv \cap shims = {}
        /\ ms.rv \cap {"notes", "sub"} = {}
        /\ \A e \in EntriesOf(CanonicalDirs(IF ms.new_path = None THEN <<>>
                                            ELSE Unwrap(ms.new_path)) \ NewDirs) :
               e.name \in ms.rv => e \in EntriesOf(NewDirs)
        /\ ms.new_path = None => ms.rv = {}

\* The bogus directory is new, the usual one is not: both new executables of
\* the bogus directory are reported, its data file and its subdirectory are not.
C15_Witness ==
    /\ Returned
    /\ ms.new_path = Some(JoinPaths(<<Bogus, UsrBin>>))
    /\ ms.env = (PATH :> JoinPaths(<<HomeBin, UsrBin>>))
    /\ ms.cwd = ProjectRoot
    /\ created = {"hello2"}
    /\ shims = {"bash"}
    /\ ms.rv = {"hello", "hello2"}

-----------------------------------------------------------------------------
(* C16 *)
ShimCommandRan == proc.kind \in {"shim_command", "unshim_command"} /\ proc.pc = "exited"

ShimCommandStep == proc.pc = "none" /\ proc'.kind \in {"shim_command", "unshim_command"}

\* C16: shim lifecycle: after any sequence of shim and unshim commands a shim
\* for a command X other than quickenv exists in home/bin exactly when the
\* last operation naming X was a successful shim.  As a step property: a
\* successful shim of X leaves the link, an unshim of X leaves none, and a
\* command that fails, or that does not name X, leaves the link as it was.
C16_ShimExistsIffLastSuccessfulShim ==
    [][ShimCommandStep =>
          \A X \in (Commands \cup Creatable) :
              IF X \in Elems(proc'.commands) /\ proc'.exit = Some(0)
              THEN X \in shims' <=> proc'.kind = "shim_command"
              ELSE X \in shims' <=> X \in shims]_vars

-----------------------------------------------------------------------------
(* C17 *)
Resolves(X) == which(X, proc.env, proc.cwd, W)

Shadowed(X) ==
    /\ X \in proc.touched
    /\ Resolves(X) # None
    /\ Resolves(X) # Some(ShimPath(X))

NamesBothPaths(error) ==
    /\ Len(error) = 3
    /\ error[1] = "is shadowed by an executable of the same name at"
    /\ error[2].name \in proc.touched
    /\ error[2] = ShimPath(error[2].name)
    /\ Some(error[3]) = Resolves(error[2].name)
    /\ error[3] # error[2]

\* C17: shadowing conflict: if, after a shim for X has been installed,
\* resolving X on the ambient PATH does not land on home/bin/X because another
\* executable named X comes earlier, the shim command reports an error that
\* names both the shim path and the shadowing path and exits with code 1; it
\* never reports success for a shim that would not be the one that runs.
C17_ShadowedShimIsAnError ==
    (ShimCommandRan /\ proc.kind = "shim_command") =>
        /\ (\E X \in proc.touched : Shadowed(X))
               => proc.exit = Some(1) /\ NamesBothPaths(proc.error)
        /\ proc.exit = Some(0)
               => \A X \in Elems(proc.commands) \ {"quickenv"} :
                      X \in shims /\ Resolves(X) = Some(ShimPath(X))

\* test_shadowed: the bogus directory comes before the shim directory.
C17_Witness ==
    /\ ShimCommandRan
    /\ proc.commands = <<"hello">>
    /\ proc.env = (PATH :> JoinPaths(<<Bogus, HomeBin, UsrBin>>))
    /\ proc.cwd = ProjectRoot
    /\ proc.exit = Some(1)
    /\ proc.error = <<"is shadowed by an executable of the same name at",
                      ShimPath("hello"), [dir |-> Bogus, name |-> "hello"]>>

-----------------------------------------------------------------------------
(* C18 *)
NamesOwnBinary == ShimCommandRan /\ "quickenv" \in Elems(proc.commands)

Occurrences(s, x) == Cardinality({i \in 1..Len(s) : s[i] = x})

OwnBinaryFound == which("quickenv", proc.env, proc.cwd, W) # None

\* C18: the tool never shims or unshims its own name: a request naming
\* quickenv is skipped with a warning, is not counted as a change, and neither
\* creates, replaces nor removes home/bin/quickenv.  The skip does not make
\* the command fail: unshim exits 0, and shim exits 0 when the own binary is
\* found on PATH and no other command of the request fails.
C18_OwnNameIsSkipped ==
    NamesOwnBinary =>
        /\ "quickenv" \notin proc.touched
        /\ "quickenv" \notin shims
        /\ proc.changes <= Cardinality(Elems(proc.commands) \ {"quickenv"})
        /\ proc.kind = "unshim_command"
               => /\ proc.exit = Some(0)
                  /\ Len(proc.warnings) = Occurrences(proc.commands, "quickenv")
        /\ (proc.kind = "shim_command" /\ proc.error = <<>>)
               => /\ proc.exit = Some(0)
                  /\ Len(proc.warnings) = Occurrences(proc.commands, "quickenv")
        /\ (proc.kind = "shim_command" /\ OwnBinaryFound
                /\ Elems(proc.commands) = {"quickenv"})
               => /\ proc.exit = Some(0)
                  /\ proc.changes = 0
                  /\ shims = proc.shims_before

\* The claim as it is worded: whatever else happens, the command exits 0.
C18_OwnNameExitsZero == NamesOwnBinary => proc.exit = Some(0)

\* test_shim_self
C18_Witness ==
    /\ NamesOwnBinary
    /\ proc.kind = "shim_command"
    /\ proc.commands = <<"quickenv">>
    /\ proc.warnings = <<"not shimming own binary">>
    /\ proc.exit = Some(0)

-----------------------------------------------------------------------------
(* C19 *)
FindsNothing(second) ==
    /\ second.commands = <<>>
    /\ second.changes = 0
    /\ second.shims = shims
    /\ second.exit = Some(0)

\* C19: shim installation is idempotent: installing a shim that already
\* exists leaves home/bin with the same set of shims and counts zero new
\* shims (only shims that did not exist before are counted); running the
\* automatic shim a second time right after a successful automatic run finds
\* no missing commands and creates no shim.
C19_ShimIsIdempotent ==
    (ShimCommandRan /\ proc.kind = "shim_command") =>
        /\ proc.changes = Cardinality(shims \ proc.shims_before)
        /\ Elems(proc.commands) \ {"quickenv"} \subseteq proc.shims_before
               => shims = proc.shims_before /\ proc.changes = 0
        /\ (proc.auto /\ proc.exit = Some(0))
               => FindsNothing(command_shim(<<>>, TRUE, proc.env, proc.cwd, W))

\* test_auto_shimming: the automatic run has installed the missing command.
C19_Witness ==
    /\ ShimCommandRan
    /\ proc.auto
    /\ proc.exit = Some(0)
    /\ proc.commands = <<"hello">>
    /\ proc.changes = 1
    /\ shims = {"hello"}

-----------------------------------------------------------------------------
(* C20 *)
\* The missing set of the invocation's context under a cache file and a
\* content of the bogus directory.
MissingSet(file, made) ==
    MissingUnder(LoadCache(file, "none"), proc.env, proc.cwd,
                 [W EXCEPT !.cache = file, !.created = made])

ChildExited == proc.child # None /\ ~Unwrap(proc.child).hang

Silenced == FlagSet(proc.env, QUICKENV_NO_SHIM_WARNINGS)

AdvisoryOk == proc.advisory.err_before = "none" /\ proc.advisory.err_after = "none"

DispatchRule ==
    (proc.kind = "shim" /\ proc.pc = "exited" /\ ChildExited) =>
        /\ proc.exit = Some(Unwrap(proc.child).code)
        /\ proc.advisory.checked
        /\ (proc.advisory.enabled /\ AdvisoryOk) =>
              /\ proc.advisory.old_missing_shims = MissingSet(proc.cache_before, proc.created_before).rv
              /\ proc.advisory.missing_shims = MissingSet(cache, created).rv
              /\ proc.advisory.warning # None
                     <=> proc.advisory.missing_shims \ proc.advisory.old_missing_shims # {}
              /\ proc.advisory.warning # None
                     => Unwrap(proc.advisory.warning).new
                            = Cardinality(proc.advisory.missing_shims
                                              \ proc.advisory.old_missing_shims)
        /\ ~AdvisoryOk => proc.advisory.warning = None

ReloadRule ==
    (ReloadOk /\ proc.pc = "exited" /\ proc.advisory.enabled /\ AdvisoryOk) =>
        /\ proc.exit = Some(0)
        /\ proc.advisory.old_missing_shims = MissingSet(proc.cache_before, created).rv
        /\ proc.advisory.missing_shims = MissingSet(cache, created).rv
        /\ proc.advisory.warning # None <=> proc.advisory.missing_shims # {}
        /\ proc.advisory.warning # None
               => /\ Unwrap(proc.advisory.warning).total
                         = Cardinality(proc.advisory.missing_shims)
                  /\ Unwrap(proc.advisory.warning).new
                         = Cardinality(proc.advisory.missing_shims
                                           \ proc.advisory.old_missing_shims)

SilencedRule ==
    (proc.pc = "exited" /\ proc.kind \in {"shim", "reload"} /\ Silenced) =>
        /\ ~proc.advisory.enabled
        /\ proc.advisory.warning = None
        /\ proc.advisory.old_missing_shims = {}
        /\ proc.advisory.missing_shims = {}
        /\ ReloadOk => proc.exit = Some(0)

\* C20: missing-shim advisory rule: around a subprocess dispatch the missing
\* set is computed once before the spawn and once after the child exits, and a
\* warning is printed only if some command is missing afterwards that was not
\* missing before; on reload a warning is printed whenever at least one
\* command is missing under the new cache, and its "new" count is the number
\* of commands missing now that were not missing under the previous cache;
\* with QUICKENV_NO_SHIM_WARNINGS=1 no check runs; in no case does the
\* advisory, or a failure inside it during dispatch, change the exit code.
C20_AdvisoryRule == DispatchRule /\ ReloadRule /\ SilencedRule

\* test_shim_creating_shims: the launched program has created an executable
\* in a directory of the cached PATH, and the dispatch warns about one new
\* command.
C20_Witness ==
    /\ proc.kind = "shim"
    /\ proc.pc = "exited"
    /\ ChildExited
    /\ proc.created_before = {}
    /\ created = {"hello2"}
    /\ proc.advisory.old_missing_shims = {}
    /\ proc.advisory.warning = Some([total |-> 1, new |-> 1])
    /\ proc.exit = Some(0)

-----------------------------------------------------------------------------
(* C27 *)

StateOrder == <<"PreBefore", "InBefore", "PreAfter", "InAfter", "End">>

StateRank(s) == CHOOSE i \in 1..Len(StateOrder) : StateOrder[i] = s

\* The lines on which a state is left.
StepsOn(s) ==
    IF s = "PreBefore" THEN {BEGIN_BEFORE}
    ELSE IF s = "InBefore" THEN {END_BEFORE}
    ELSE IF s = "PreAfter" THEN {BEGIN_AFTER}
    ELSE IF s = "InAfter" THEN {END_AFTER}
    ELSE {}

\* One iteration of the loop is about to read a line.
AtLine == parse_pc = "loop" /\ reader # <<>>

\* The snapshot that the lines of a block go to.
Filling(s, before, after) == IF s = "InBefore" THEN before ELSE after

\* A line without separator has gone to the value of the tracked variable,
\* after a newline, unless the call panicked.
Continued(env, env2, line) ==
    \/ parse_pc' = "panicked"
    \/ /\ prev_var_name # None
       /\ env2 = [env EXCEPT ![Unwrap(prev_var_name)] = (@ \o <<NL>>) \o line]

\* C27: the parser state only moves forward along PreBefore, InBefore,
\* PreAfter, InAfter, End, one step at a time, and only on the sentinel line
\* of the current state; a sentinel met in any other state causes no
\* transition: in PreBefore, PreAfter and End it goes to the pass-through
\* callback like any other line, inside a block it is parsed as a line of the
\* block (having no separator, as a continuation line).
C27_StateMovesForwardOnItsSentinel ==
    [][AtLine =>
         /\ StateRank(parse_state') \in {StateRank(parse_state), StateRank(parse_state) + 1}
         /\ (parse_state' # parse_state) <=> (NextLine(reader) \in StepsOn(parse_state))
         /\ (NextLine(reader) \in Sentinels \ StepsOn(parse_state)) =>
               IF parse_state \in {"PreBefore", "PreAfter", "End"}
               THEN /\ script_output' = Append(script_output, NextLine(reader))
                    /\ old_env' = old_env
                    /\ new_env' = new_env
               ELSE /\ script_output' = script_output
                    /\ Continued(Filling(parse_state, old_env, new_env),
                                 Filling(parse_state, old_env', new_env'),
                                 NextLine(reader))]_vars

\* A stream has been parsed to the end in which sentinels stood out of place:
\* one was handed to the callback and one became part of a value.
C27_Witness ==
    /\ parse_pc = "returned"
    /\ parse_state = "End"
    /\ BEGIN_AFTER \in Elems(script_output)
    /\ segments.after = <<RecAB, END_BEFORE>>
    /\ new_env = (KeyA :> <<"b", NL>> \o END_BEFORE)

-----------------------------------------------------------------------------
(* C28 *)

\* C28: whenever parse_env_line takes the continuation branch while a diff
\* stream is parsed, the previous-variable tracker is set and names a key that
\* is already present in the snapshot being filled.
C28_ContinuationFollowsVariable ==
    [][(/\ AtLine
        /\ parse_state \in {"InBefore", "InAfter"}
        /\ NextLine(reader) \notin StepsOn(parse_state)
        /\ ~HasEq(NextLine(reader)))
       => IF prev_var_name = None THEN FALSE
          ELSE Unwrap(prev_var_name) \in DOMAIN Filling(parse_state, old_env, new_env)]_vars

-----------------------------------------------------------------------------
(* C29 *)

\* C29: continuations never cross block boundaries: the tracker is reset at
\* each of the four sentinel transitions, a line of the before block changes
\* only the before snapshot and a line of the after block only the after
\* snapshot, a snapshot never changes once its END sentinel has been read, and
\* a pass-through line changes neither snapshot.
C29_BlocksAreSeparate ==
    [][AtLine =>
         /\ (parse_state' # parse_state) =>
               (prev_var_name' = None /\ old_env' = old_env /\ new_env' = new_env)
         /\ (parse_state = "InBefore") => (new_env' = new_env)
         /\ (parse_state = "InAfter") => (old_env' = old_env)
         /\ (parse_state \in {"PreAfter", "InAfter", "End"}) => (old_env' = old_env)
         /\ (parse_state = "End") => (new_env' = new_env)
         /\ (parse_state \in {"PreBefore", "PreAfter", "End"}) =>
               (old_env' = old_env /\ new_env' = new_env)]_vars

\* The after block began with the tracker reset although the before block had
\* ended on a variable, and both blocks and the pass-through filled their own.
C29_Witness ==
    /\ parse_pc = "returned"
    /\ segments.before = <<RecAB>>
    /\ segments.mid = <<ContB>>
    /\ segments.after = <<RecBEq>>
    /\ old_env = (KeyA :> <<"b">>)
    /\ new_env = (KeyB :> <<EQ>>)
    /\ script_output = <<ContB>>

-----------------------------------------------------------------------------
(* C30 *)

\* The step is a reload whose script has run and exited with status zero.
ScriptSucceeds ==
    /\ proc.pc = "none"
    /\ proc'.kind = "reload"
    /\ proc'.materialized
    /\ proc'.reload.child = Some(0)

\* C30: a successful reload replaces the whole cache: the file is absent until
\* a reload has succeeded, every reload whose script exits with status zero
\* leaves exactly the diff of that run in it, whatever it held before, and no
\* other step changes it; so after any sequence of reloads it holds the diff
\* of the most recent one whose script exited with status zero.
C30_CacheIsLastSuccessfulDiff ==
    /\ cache = None
    /\ [][cache' = IF ScriptSucceeds
                   THEN Some(CacheBytes(proc'.reload.old_env, proc'.reload.new_env))
                   ELSE cache]_vars

\* A reload has replaced a cache that held records by an empty diff.
C30_Witness ==
    /\ ReloadOk
    /\ proc.reload.child = Some(0)
    /\ proc.cache_before # None
    /\ proc.cache_before # Some(<<>>)
    /\ cache = Some(<<>>)

-----------------------------------------------------------------------------
(* C23 *)

\* The working directory and its ancestors up to the filesystem root.
Ancestors(dir) == {SubSeq(dir, 1, n) : n \in 0..Len(dir)}

\* Those of them that have an activation file.
Holders(tree, cwd) == {d \in Ancestors(cwd) : tree[d] # "absent"}

Nearest(tree, cwd) ==
    CHOOSE d \in Holders(tree, cwd) : \A e \in Holders(tree, cwd) : Len(e) <= Len(d)

\* The call has returned, and the working directory could be read.
Resolved == res.pc \in {"found", "failed"} /\ res.fault = "none"

\* C23: context resolution selects the activation file of the nearest
\* directory (the working directory or its closest ancestor) that has one,
\* with that directory as root, and fails with the no-activation-file error
\* exactly when neither the working directory nor any ancestor has one.
C23_NearestActivationFile ==
    Resolved =>
        IF Holders(res.tree, res.cwd) = {}
        THEN res.pc = "failed" /\ res.err = "NoEnvrc"
        ELSE /\ res.pc = "found"
             /\ res.root = Nearest(res.tree, res.cwd)
             /\ res.envrc_path = Append(Nearest(res.tree, res.cwd), ".envrc")

-----------------------------------------------------------------------------
(* C24 *)

\* The nearest activation file exists but cannot be opened.
NearestUnopenable ==
    /\ Holders(res.tree, res.cwd) # {}
    /\ res.tree[Nearest(res.tree, res.cwd)] = "unreadable"

\* C24: when the activation file is found in a directory but cannot be
\* opened, context resolution fails with an I/O error: it neither reports the
\* no-activation-file error nor uses a parent directory's activation file.
C24_UnopenableFileIsIoError ==
    (Resolved /\ NearestUnopenable) => (res.pc = "failed" /\ res.err = "Io")

-----------------------------------------------------------------------------
(* C21 *)

\* The installation as the command found it.
WorldBefore == [W EXCEPT !.cache = proc.cache_before, !.created = proc.created_before]

\* What the shim of the program does when it is invoked in the same directory,
\* with the same ambient environment and the same cache.
DispatchOf(program_name) ==
    exec_shimmed_binary(HomeBin \o program_name, proc.env, proc.cwd, WorldBefore, proc.fault)

\* The program resolves on the ambient PATH to home/bin/<program>.
ResolvesToShim ==
    which(file_name(proc.commands), proc.env, proc.cwd, WorldBefore)
        = Some(ShimPath(file_name(proc.commands)))

PrintsTargetOf(d) ==
    IF d.find.err = "none"
    THEN proc.stdout = <<Unwrap(d.find.path)>> /\ proc.exit = Some(0)
    ELSE proc.stdout = <<>> /\ proc.exit = Some(1)

\* C21: `quickenv which X` without --pretend-shimmed fails with exit code 1
\* unless X resolves on the ambient PATH to home/bin/X; when it does, or
\* --pretend-shimmed is given, it prints exactly the target path that a shim
\* dispatch of X would launch in the same directory with the same cache (and
\* fails as the dispatch would when there is none); it changes no state.
C21_WhichPrintsDispatchTarget ==
    proc.kind = "which" =>
        /\ (~proc.pretend_shimmed /\ ~ResolvesToShim)
               => (proc.exit = Some(1) /\ proc.stdout = <<>>)
        /\ (proc.pretend_shimmed \/ ResolvesToShim) => PrintsTargetOf(DispatchOf(proc.commands))
        /\ cache = proc.cache_before
        /\ shims = proc.shims_before
        /\ created = proc.created_before

\* test_which: the shim of hello is first on PATH, and which prints the
\* executable of the directory that the cached PATH has put in front.
C21_Witness ==
    /\ proc.kind = "which"
    /\ ~proc.pretend_shimmed
    /\ proc.commands = <<"hello">>
    /\ ResolvesToShim
    /\ proc.exit = Some(0)
    /\ proc.stdout = <<[dir |-> Bogus, name |-> "hello"]>>

-----------------------------------------------------------------------------
(* C22 *)

\* The context of the command resolves.
HasContext == resolve_envrc_context(proc.cwd, proc.fault).err = "none"

RunReloadFirst ==
    /\ proc.exit = Some(1)
    /\ proc.error = <<"Run 'quickenv reload' first">>
    /\ proc.stdout = <<>>

PrintsMapping(mapping) == proc.exit = Some(0) /\ proc.stdout = PrintVars(mapping)

AutoShimWithoutCache ==
    (/\ proc.kind = "shim_command"
     /\ proc.auto
     /\ resolve_envrc_context(proc.cwd, "none").err = "none"
     /\ proc.cache_before = None) => RunReloadFirst

\* C22: get_envvars returns None exactly when the cache file does not exist
\* and Some(mapping), possibly empty, when it exists (and can be read to its
\* end); `vars` and automatic `shim` exit with code 1 and the "run reload
\* first" message in the first case, and `vars` prints the (possibly empty)
\* mapping and exits 0 in the second.
C22_NoneIffFileAbsent ==
    /\ (proc.kind = "vars" /\ HasContext /\ proc.fault # "read") =>
           /\ LoadCache(proc.cache_before, proc.fault).err = "none"
           /\ LoadCache(proc.cache_before, proc.fault).envvars = None
                  <=> proc.cache_before = None
           /\ IF proc.cache_before = None THEN RunReloadFirst
              ELSE PrintsMapping(Unwrap(get_envvars(proc.cache_before).envvars))
    /\ AutoShimWithoutCache

-----------------------------------------------------------------------------
(* C26 *)

SameDispatch(d) ==
    /\ proc.find.err = d.find.err
    /\ proc.find.path = d.find.path
    /\ proc.find.envvars_override = d.find.envvars_override
    /\ proc.child = d.child
    /\ proc.exit = d.exit

\* C26: `quickenv exec X` and an invocation of the shim X go through the same
\* dispatch: for the same working directory, ambient environment and cache
\* they resolve the same target binary and launch it with the same environment
\* overrides, whether or not a shim for X exists.
C26_ExecIsShimDispatch ==
    proc.kind = "exec" => SameDispatch(DispatchOf(proc.commands))

\* exec of a program that has no shim and is on no directory of the ambient
\* PATH: it is found through the cached PATH and runs.
C26_Witness ==
    /\ proc.kind = "exec"
    /\ proc.commands = <<"hello2">>
    /\ "hello2" \notin shims
    /\ which("hello2", proc.env, proc.cwd, W) = None
    /\ proc.find.path = Some([dir |-> Bogus, name |-> "hello2"])
    /\ PATH \in DOMAIN proc.find.loaded
    /\ proc.exit = Some(0)

-----------------------------------------------------------------------------
(* C25 *)

\* Every working directory from which the project's activation file is
\* resolved gets the cache path of that file's path.
OneSlotPerPath ==
    \A cwd \in Cwds :
        resolve_envrc_context(cwd, "none").err = "none" =>
            env_cache_path(resolve_envrc_context(cwd, "none").envrc_path)
                = env_cache_path(Append(ProjectRoot, ".envrc"))

\* The dispatch that has run would have resolved the same with any other
\* content of the activation file: it applies what the cache holds.
ContentIsNotRead ==
    proc.kind = "shim" =>
        \A script \in Envrcs :
            find_shimmed_binary(file_name(proc.argv0), proc.env, proc.cwd,
                                [WorldBefore EXCEPT !.envrc = script], proc.fault) = proc.find

\* C25: the cache slot is a function of the activation file's path, never of
\* its content: every resolution of the same activation path yields the same
\* cache path, editing the activation file changes neither the cache path nor
\* the cached diff, which only a reload replaces, and shim dispatches apply
\* the cached diff whatever the file holds by now.
C25_CacheKeyedByPathOnly ==
    /\ [](OneSlotPerPath /\ ContentIsNotRead)
    /\ [][/\ envrc' # envrc => cache' = cache
          /\ cache' # cache => proc'.kind = "reload"]_vars

\* The activation file has been rewritten after a reload into one that sets
\* no MYVALUE, and a dispatch still applies the MYVALUE of the old content.
C25_Witness ==
    /\ envrc = <<PrependPath(Bogus)>>
    /\ proc.kind = "shim"
    /\ proc.find.err = "none"
    /\ proc.find.ctx = "found"
    /\ MYVALUE \in DOMAIN proc.find.loaded
    /\ cache # None
    /\ proc.find.loaded = Unwrap(get_envvars(cache).envvars)

-----------------------------------------------------------------------------
(* C31 *)

BeforeBlock == <<Say(BEGIN_BEFORE), EnvCmd, Say(END_BEFORE)>>
AfterBlock == <<Say(BEGIN_AFTER), EnvCmd, Say(END_AFTER)>>

\* The environment of the shell once the prelude and the activation file have run.
EnvAfterBody(m, w) ==
    RunStatements(m.prelude \o m.body, ShellStart(m.spawn_env), ProjectRoot, w, 0).env

\* The shell is at one of the two env commands.
DumpsNow(m) == m.child = "running" /\ m.pending = <<>> /\ ~ShellDone(m) /\ m.script[m.ip].op = "env"

BodyRange(m) == 4..(3 + Len(m.prelude) + Len(m.body))

Sequenced(m) ==
    /\ Len(m.script) = 6 + Len(m.prelude) + Len(m.body)
    /\ SubSeq(m.script, 1, 3) = BeforeBlock
    /\ SubSeq(m.script, 4, 3 + Len(m.prelude)) = m.prelude
    /\ SubSeq(m.script, 4 + Len(m.prelude), Len(m.script) - 3) = m.body
    /\ SubSeq(m.script, Len(m.script) - 2, Len(m.script)) = AfterBlock

\* The first dump prints the environment the shell was spawned with, ahead of
\* every statement of the prelude and the body; the second comes after all of
\* them and prints what they left.
DumpsAround(m, w) ==
    DumpsNow(m) =>
        \/ m.ip = 2 /\ m.sh.env = m.spawn_env /\ \A i \in BodyRange(m) : m.ip < i
        \/ /\ m.ip = Len(m.script) - 1
           /\ m.sh.env = EnvAfterBody(m, w)
           /\ \A i \in BodyRange(m) : i < m.ip

PreludeCounts(m, w) ==
    (m.outcome = "ok" /\ m.st.parse_state = "End") =>
        /\ m.st.old_env = m.spawn_env
        /\ m.st.new_env = EnvAfterBody(m, w)
        /\ m.cache = Some(CacheBytes(m.spawn_env, EnvAfterBody(m, w)))

\* C31: the generated script is the before block (sentinel, env, sentinel), the
\* prelude, the activation file and the after block, in this order; the one
\* shell that runs it takes the before snapshot ahead of every statement of
\* the prelude and the body and the after snapshot behind all of them, so what
\* the prelude exports is part of the difference that is cached.
C31_SnapshotsAroundPreludeAndBody ==
    (mat.parent # "idle") => (Sequenced(mat) /\ DumpsAround(mat, W) /\ PreludeCounts(mat, W))

C31_Witness ==
    /\ mat.outcome = "ok"
    /\ mat.prelude = <<Export(MYVALUE, Canary)>>
    /\ mat.body = <<PrependPath(Bogus)>>
    /\ mat.cache = Some(((MYVALUE \o <<EQ>>) \o (Canary \o <<NL>>))
                            \o ((PATH \o <<EQ>>) \o (((Bogus \o <<COLON>>) \o UsrBin) \o <<NL>>)))

-----------------------------------------------------------------------------
(* C32 *)

\* The shell is inside a write on a pipe that has no room.
BlockedWriting(m) == m.child = "running" /\ m.pending # <<>> /\ Len(m.pipe) >= PipeCap

\* The parent is inside cmd.wait().
InWait(m) == m.parent = "waiting"

\* Lines the parent has taken from the pipe so far.
Taken(m) == Len(m.written) - Len(m.pipe)

\* C32: compute_envvars reads its shell's standard output line by line while
\* the shell runs, and calls wait only when the stream has ended (the pipe is
\* empty and the shell has exited); it is never inside wait while the shell is
\* blocked writing to a full pipe; a blocked write is released, and once the
\* shell has exited the run reaches its outcome.
C32_ReadsBeforeItWaits ==
    /\ [](InWait(mat) => (mat.pipe = <<>> /\ mat.child = "exited" /\ mat.pending = <<>>))
    /\ []~(InWait(mat) /\ BlockedWriting(mat))
    /\ (BlockedWriting(mat) ~> ~BlockedWriting(mat))
    /\ ((mat.child = "exited") ~> (mat.parent = "done"))

\* The shell is blocked on the full pipe after the parent has already taken
\* lines from it.
C32_Witness ==
    /\ BlockedWriting(mat)
    /\ mat.parent = "reading"
    /\ Taken(mat) > 0
    /\ Len(mat.written) > PipeCap

-----------------------------------------------------------------------------
(* C33 *)

\* The lines of a stream that belong to neither block, in their order.
PassThrough(lines) == ParseLines(ParserStart, Flatten([i \in 1..Len(lines) |-> lines[i] \o <<NL>>])).output

\* The lines the parent has taken from the pipe so far.
TakenLines(m) == SubSeq(m.written, 1, Len(m.written) - Len(m.pipe))

\* Every line the shell printed in its whole run.
AllWritten(m) == m.child = "exited" /\ m.pending = <<>> /\ m.pipe = <<>>

\* C33: the process's own standard output is at every moment the pass-through
\* lines among the lines parsed so far, in the order the script printed them;
\* when the outcome of the run is decided, success or failure, the shell has
\* exited and every pass-through line it printed is already on standard output.
C33_PassThroughBeforeOutcome ==
    /\ (~mat.st.panic => mat.stdout = PassThrough(TakenLines(mat)))
    /\ (mat.outcome \in {"ok", "error"} => (AllWritten(mat) /\ mat.stdout = PassThrough(mat.written)))

\* The failing script of the acceptance test: its echo is on standard output
\* when the run ends in an error.
C33_Witness ==
    /\ mat.outcome = "error"
    /\ mat.body = <<Echo(MYVALUE), Exit(1)>>
    /\ mat.stdout = <<<<"the value is">> \o Old>>

-----------------------------------------------------------------------------
(* C34 *)

\* A dispatch, through a shim or through quickenv exec, that started its target.
Transferred == proc.pc = "exited" /\ proc.kind \in {"shim", "exec"} /\ proc.launch # None

ProgramOf(p) == IF p.kind = "exec" THEN p.commands ELSE p.argv0

\* The same ambient environment with the other transfer mode selected.
OtherMode(env) ==
    IF FlagSet(env, QUICKENV_SHIM_EXEC) THEN EnvRemove(env, QUICKENV_SHIM_EXEC)
    ELSE EnvInsert(env, QUICKENV_SHIM_EXEC, One)

\* What the same invocation does in the other mode.
Counterpart(p, w) == exec_shimmed_binary(ProgramOf(p), OtherMode(p.env), p.cwd, w, p.fault)

\* The ambient environment overlaid with the overrides; an override wins.
Effective(env, ambient, overrides) ==
    /\ DOMAIN env = (DOMAIN ambient) \cup (DOMAIN overrides)
    /\ \A k \in DOMAIN overrides : env[k] = overrides[k]
    /\ \A k \in (DOMAIN ambient) \ (DOMAIN overrides) : env[k] = ambient[k]

\* Same file, same argument vector, same environment up to the mode switch itself.
SameLaunch(a, b) ==
    /\ a.path = b.path
    /\ a.argv = b.argv
    /\ EnvRemove(a.env, QUICKENV_SHIM_EXEC) = EnvRemove(b.env, QUICKENV_SHIM_EXEC)

LaunchedAlike(p, other) ==
    /\ other.launch # None
    /\ other.replaced = ~p.replaced
    /\ SameLaunch(Unwrap(p.launch), Unwrap(other.launch))

\* Replace mode: the process's own environment becomes the target's, no
\* advisory runs, and the process ends as the target ends.
ReplaceOnly(p) ==
    /\ p.replaced = FlagSet(p.env, QUICKENV_SHIM_EXEC)
    /\ p.own_env # p.env => p.replaced
    /\ p.replaced =>
           /\ p.own_env = Unwrap(p.launch).env
           /\ p.advisory = NoProc.advisory
           /\ p.exit = (IF Unwrap(p.child).hang THEN None ELSE Some(Unwrap(p.child).code))

\* C34: with QUICKENV_SHIM_EXEC=1 and without it the same target path is
\* started with the same arguments and the same effective environment, the
\* ambient environment overlaid with the overrides where an override wins; only
\* replace mode changes the dispatcher's own environment, and in replace mode
\* no advisory check and no exit-code handling runs.
C34_TransferModesLaunchAlike ==
    Transferred =>
        /\ Unwrap(proc.launch).path = Unwrap(proc.find.path)
        /\ Effective(Unwrap(proc.launch).env, proc.env, proc.find.envvars_override)
        /\ LaunchedAlike(proc, Counterpart(proc, WorldBefore))
        /\ ReplaceOnly(proc)

C34_Witness ==
    /\ Transferred
    /\ proc.kind = "shim"
    /\ proc.replaced
    /\ proc.cache_before # None
    /\ MYVALUE \in DOMAIN proc.env
    /\ Unwrap(proc.launch).env[MYVALUE] = Canary
    /\ proc.own_env # proc.env

-----------------------------------------------------------------------------
(* C35 *)

\* One reload and the dispatch; no second reload.
OneReload(r) == r.w["B"].pc = "none"

\* The bytes writer p has handed to the file so far.
WrittenSoFar(r, p, off) == SubSeq(r.w[p].bytes, 1, off)

\* What a dispatch makes of the file content `seen`.
EnvOfFile(seen) == IF seen = None THEN EmptyEnv ELSE Unwrap(get_envvars(seen).envvars)

\* The dispatch takes what it loaded for the cache: the overrides other than
\* PATH are the loaded mapping, the search starts from the loaded PATH, and the
\* only failure left is that of the search itself.
ProceedsWith(rd) ==
    IF get_envvars(rd.seen).panic THEN rd.find.err = "panic"
    ELSE /\ rd.find.loaded = EnvOfFile(rd.seen)
         /\ \A k \in DOMAIN rd.find.loaded :
                k # PATH => /\ k \in DOMAIN rd.find.envvars_override
                            /\ rd.find.envvars_override[k] = rd.find.loaded[k]
         /\ PATH \in DOMAIN rd.find.loaded => rd.find.old_path = Some(rd.find.loaded[PATH])
         /\ rd.find.err \in {"none", "BinaryNotFound"}
         /\ rd.find.err = "none" <=> rd.find.path # None

\* C35: nothing keeps a dispatch from reading the cache file while a reload
\* writes it: between File::create and the last write the file holds only what
\* has been written so far, a dispatch in that window loads exactly that, and
\* it goes on with the mapping it loaded.
C35_DispatchLoadsPartialCache ==
    /\ (OneReload(race) /\ race.w["A"].pc = "writing")
           => race.file = Some(WrittenSoFar(race, "A", race.w["A"].off))
    /\ (OneReload(race) /\ race.rd.pc = "done" /\ "A" \in race.rd.during)
           => race.rd.seen = Some(WrittenSoFar(race, "A", race.rd.at["A"]))
    /\ race.rd.pc = "done" => ProceedsWith(race.rd)

\* The dispatch has loaded a proper prefix of the new records, which is neither
\* the previous diff nor the new one, and has found its target.
C35_Witness ==
    /\ OneReload(race)
    /\ race.rd.pc = "done"
    /\ "A" \in race.rd.during
    /\ race.rd.at["A"] > 0
    /\ race.rd.find.loaded # EnvOfFile(race.prev)
    /\ race.rd.find.loaded # EnvOfFile(Some(race.w["A"].bytes))
    /\ race.rd.find.loaded # EmptyEnv
    /\ race.rd.find.err = "none"

-----------------------------------------------------------------------------
(* C36 *)

BothReloadsDone(r) == \A p \in Writers : r.w[p].pc = "done"

\* C36: when two reloads of one activation file overlap, the cache file ends up
\* holding the complete diff one of them wrote, never a mixture of the two.
C36_LastWriterWins ==
    BothReloadsDone(race) => \E p \in Writers : race.file = Some(race.w[p].bytes)

-----------------------------------------------------------------------------
(* C37 *)

\* The step changes the flag.
FlagChanges == sig'.SHIM_HAS_CONTROL # sig.SHIM_HAS_CONTROL

\* The step is the process's way from the command to the spawn of its shell.
TransferBoundary ==
    /\ sig.mode = "reload" /\ sig.pc = "command" /\ sig'.pc = "spawn"
    /\ sig.child = "none" /\ sig'.child = "none"

\* An interrupt arrives in this step.
Interrupted == sig'.interrupts = sig.interrupts + 1

\* C37: SHIM_HAS_CONTROL is false from the start of the process and changes
\* only on the way to the spawn of the reload's shell, from false to true, so
\* the shell never runs while the flag is false; the flag is never set back,
\* and from then on, up to the end of the process and also while the cache is
\* written and the advisory is computed, an interrupt does not end the process
\* with code 130.
C37_ControlPassedOnceBeforeSpawn ==
    /\ [](sig.pc \in {"idle", "check_for_shim", "set_ctrlc_handler", "command"}
              => ~sig.SHIM_HAS_CONTROL)
    /\ []((sig.mode = "reload" /\ sig.child # "none") => sig.SHIM_HAS_CONTROL)
    /\ [][FlagChanges => (~sig.SHIM_HAS_CONTROL /\ sig'.SHIM_HAS_CONTROL /\ TransferBoundary)]_vars
    /\ [][(sig.SHIM_HAS_CONTROL /\ Interrupted)
              => (sig'.pc = sig.pc /\ sig'.exit = None /\ sig'.SHIM_HAS_CONTROL)]_vars
    /\ [](sig.SHIM_HAS_CONTROL => sig.exit # Some(INTERRUPTED_EXIT_CODE))

\* An interrupt has arrived in a reload whose shell then succeeded, and the
\* process is still at its work behind wait.
C37_Witness ==
    /\ sig.mode = "reload"
    /\ sig.SHIM_HAS_CONTROL
    /\ sig.interrupts > 0
    /\ sig.pc = "write_cache"
    /\ sig.exit = None

-----------------------------------------------------------------------------
(* C38 *)

\* The shell has exited with status zero and the stream ended short of the
\* END-AFTER sentinel.
EndedEarly(m) ==
    /\ m.parent = "done" /\ m.outcome # "panic"
    /\ m.status = Some(0)
    /\ m.st.parse_state # "End"

AfterNeverBegan(m) == m.st.parse_state \in {"PreBefore", "InBefore", "PreAfter"}

\* C38: parse_env_diff does not insist on the End state: when the shell exits
\* with status zero before END-AFTER was printed, the reload succeeds and
\* rewrites the cache as the difference of the snapshots parsed so far, which
\* replaces the previous cache; when the after block never began the new cache
\* is empty.
C38_EarlyExitRewritesCache ==
    EndedEarly(mat) =>
        /\ mat.outcome = "ok"
        /\ mat.cache = Some(CacheBytes(mat.st.old_env, mat.st.new_env))
        /\ AfterNeverBegan(mat) => (mat.st.new_env = EmptyEnv /\ mat.cache = Some(<<>>))

\* The activation file exports a variable and exits 0: the cache that held a
\* record before is empty afterwards.
C38_Witness ==
    /\ EndedEarly(mat)
    /\ mat.body = <<Export(MYVALUE, Canary), Exit(0)>>
    /\ mat.cache_before # None /\ mat.cache_before # Some(<<>>)
    /\ mat.st.old_env # EmptyEnv
    /\ mat.cache = Some(<<>>)

-----------------------------------------------------------------------------
(* C39 *)

\* The shim command has ended with the shadowing error.
ShadowError ==
    /\ proc.pc = "exited" /\ proc.kind = "shim_command"
    /\ proc.exit = Some(1)
    /\ Len(proc.error) = 3
    /\ proc.error[1] = "is shadowed by an executable of the same name at"

\* The command the error names, and where the loop met it.
ShadowedCommand == proc.error[2].name

StoppedAt(commands, X) == CHOOSE i \in 1..Len(commands) : commands[i] = X /\ \A h \in 1..(i - 1) : commands[h] # X

\* The commands the loop has linked up to and including position i.
LinkedUpTo(commands, i) == {commands[j] : j \in 1..i} \ {"quickenv"}

NotRolledBack(commands, before, now, i) ==
    /\ commands[i] \in now
    /\ \A j \in 1..(i - 1) : commands[j] # "quickenv" => commands[j] \in now
    /\ \A j \in (i + 1)..Len(commands) :
           commands[j] \notin LinkedUpTo(commands, i) => (commands[j] \in now <=> commands[j] \in before)
    /\ now = before \cup LinkedUpTo(commands, i)

\* C39: the shadowing conflict is found after the link has been made, and
\* nothing is undone: when shim exits with the shadowing error for command X,
\* home/bin/X exists, the links made for the commands listed before X exist,
\* and the commands listed after X have not been linked.
C39_ShadowedShimStays ==
    ShadowError =>
        /\ ShadowedCommand \in Elems(proc.commands)
        /\ ShadowedCommand \in proc.touched
        /\ NotRolledBack(proc.commands, proc.shims_before, shims,
                         StoppedAt(proc.commands, ShadowedCommand))

\* quickenv shim hello bash with bogus/hello ahead of home/bin on PATH: the
\* link for hello is new and stays, bash is not linked.
C39_Witness ==
    /\ ShadowError
    /\ proc.commands = <<"hello", "bash">>
    /\ proc.shims_before = {}
    /\ shims = {"hello"}

-----------------------------------------------------------------------------
(* C40 *)

\* A dispatch that got as far as the search of its PATH.
SearchedPath ==
    /\ proc.pc = "exited" /\ proc.kind \in {"shim", "exec"}
    /\ proc.find.old_path # None
    /\ proc.find.err \in {"none", "BinaryNotFound"}

\* The cached PATH when the cache has one, otherwise the ambient PATH.
SourcePath(loaded, env) == IF PATH \in DOMAIN loaded THEN loaded[PATH] ELSE env[PATH]

\* The entries of src at the positions in keep, in their order.
KeptOf(src, keep) == LET Stays(i) == i \in keep IN [j \in 1..Cardinality(keep) |-> src[SelectSeq([i \in 1..Len(src) |-> i], Stays)[j]]]

\* new is src without some of its entries, all of them entries for the shim
\* directory, the others in their order.
OnlyShimDirRemoved(src, new, cwd, canonical_home) ==
    \E keep \in SUBSET (1..Len(src)) :
        /\ \A i \in (1..Len(src)) \ keep : IsShimDir(src[i], cwd, canonical_home)
        /\ new = JoinPaths(KeptOf(src, keep))

\* The target is the first entry of the PATH that holds the program.
FirstOnPath(path, entries, name, cwd, w) ==
    IF path = None THEN \A i \in 1..Len(entries) : FileKind(entries[i], name, cwd, w) = "none"
    ELSE \E i \in 1..Len(entries) :
             /\ Unwrap(path) = [dir |-> entries[i], name |-> name]
             /\ FileKind(entries[i], name, cwd, w) # "none"
             /\ \A h \in 1..(i - 1) : FileKind(entries[h], name, cwd, w) = "none"

OthersAsCached(overrides, loaded) ==
    /\ (DOMAIN overrides) \ {PATH} = (DOMAIN loaded) \ {PATH}
    /\ \A k \in (DOMAIN loaded) \ {PATH} : overrides[k] = loaded[k]

\* C40: a dispatch always passes a PATH override, with or without activation
\* file and cache: the source PATH (the cached PATH when the cache has one,
\* otherwise the ambient one) with its entries in their order and only entries
\* for the shim directory removed; the target is the first match on that PATH,
\* and every other override is the cached value.
C40_PathOverrideIsSourceWithoutShimDir ==
    SearchedPath =>
        /\ proc.find.old_path = Some(SourcePath(proc.find.loaded, proc.env))
        /\ PATH \in DOMAIN proc.find.envvars_override
        /\ OnlyShimDirRemoved(split_paths(Unwrap(proc.find.old_path)),
                              proc.find.envvars_override[PATH], proc.cwd, home_canonical)
        /\ FirstOnPath(proc.find.path, split_paths(proc.find.envvars_override[PATH]),
                       file_name(ProgramOf(proc)), proc.cwd, WorldBefore)
        /\ OthersAsCached(proc.find.envvars_override, proc.find.loaded)

====
